---- MODULE Spec2Model ----
(***************************************************************************)
(* AutoReach backend: the authentication routes (password login, OAuth     *)
(* 1.0a connect / disconnect, OAuth 2.0 PKCE init / callback), the tweet   *)
(* CRUD routes and the scheduled-post routes, over the relational rows     *)
(* they read and write.                                                    *)
(*                                                                         *)
(* Times are whole minutes.  NULL columns are modelled by a sentinel of    *)
(* the column's own type: "NULL" for strings, 0 for ids and times,         *)
(* NoHash / NoTwitterToken for hashes and platform tokens.                 *)
(***************************************************************************)
EXTENDS Integers, Sequences, FiniteSets, TLC

\* ------------------------------------------------------------------ bounds
MaxRows == 1       \* largest row id a table hands out
MaxTime == 2       \* the clock runs from 1 to MaxTime
MaxLogs == 2       \* rows the table content_logs holds at most
MaxNumTweets == 60 \* thread sizes tried run from -MaxNumTweets to MaxNumTweets
MaxCalls == 1      \* OAuth 2.0 callbacks in flight at once
MaxTokens == 4     \* pieces a tweet content is put together from at most
MaxResults == 2    \* ValidationResult objects alive at once
MaxErrors == 2     \* errors one ValidationResult holds at most

\* ------------------------------------------------------- program constants
ACCESS_TOKEN_EXPIRE_MINUTES == 30

SECRET_KEY == "SECRET_KEY"
ForgedKey == "other-key"

NULL == "NULL"

Usernames == {"alice", "bob"}
Passwords == {"pw1", "pw2"}
TwitterIds == {"T1", "T2"}
Contents == {"hello", "world"}

\* the handle the platform reports for an account; an account may carry the
\* same handle as a locally registered username
PlatformUsername(t) == IF t = "T1" THEN "alice" ELSE "carol"

Times == 1..MaxTime

\* a datetime of a request body: the minute it names and whether it carries a
\* UTC offset ("...Z"); NoTime is a JSON null / SQL NULL
NoTime == [t |-> 0, aware |-> FALSE]

Backends == {"sqlite", "postgresql"}

\* the server processes that serve requests side by side
Workers == {1, 2}

VARIABLES
  settings,   \* core/config.py Settings, read once from the environment
  now,        \* datetime.utcnow(), in minutes
  users,      \* table users: sequence of rows, id = index
  tweets,     \* table tweets: id -> row
  tweetSeq,   \* postgresql sequence tweets_id_seq (last value handed out)
  posts,      \* table scheduled_posts: id -> row
  postSeq,    \* postgresql sequence scheduled_posts_id_seq
  issued,     \* responses of twitter_oauth2_init held by clients
  calls,      \* twitter_oauth2_callback requests in flight, per slot
  deleted,    \* history: the tweet ids delete_tweet has removed so far
  content_logs, \* table content_logs: sequence of rows, id = index
  strategies, \* ContentGenerationContext._strategies: the keys in order, and the map
  results,    \* the ValidationResult objects alive, by reference
  publishing, \* post_now requests in flight, per server process
  published,  \* history: the tweets the platform created for requests in `publishing`
  resp        \* the request served last and its response

dbVars == <<users, tweets, tweetSeq, posts, postSeq>>
oauthVars == <<issued, calls>>
frame == <<issued, calls, deleted, content_logs, strategies, results, publishing, published>>
vars == <<settings, now, users, tweets, tweetSeq, posts, postSeq, issued, calls, deleted,
          content_logs, strategies, results, publishing, published, resp>>

\* ------------------------------------------------------------- passwords
NoHash == [alg |-> "none", of |-> NULL]

\* pwd_context.hash(password)
get_password_hash(password) == [alg |-> "bcrypt", of |-> password]

\* pwd_context.verify(plain, hashed); a missing hash verifies nothing
verify_password(plain_password, hashed_password) ==
  /\ hashed_password.alg = "bcrypt"
  /\ hashed_password.of = plain_password

\* ------------------------------------------------------------ bearer tokens
\* a JWT is its claims and the key that signed it
AbsentToken == [sub |-> NULL, exp |-> 0, key |-> "absent"]
MalformedToken == [sub |-> NULL, exp |-> 0, key |-> "malformed"]

\* the expiry of a token issued while the model's clock runs
LiveExp == MaxTime + ACCESS_TOKEN_EXPIRE_MINUTES

\* the bearer tokens requests present: signed and live for each name, signed
\* without a subject, signed but expired, signed with another key, malformed,
\* and none at all
RequestTokens ==
  [sub : Usernames \cup {NULL}, exp : {LiveExp}, key : {SECRET_KEY}]
    \cup [sub : {"alice"}, exp : {0}, key : {SECRET_KEY}]
    \cup [sub : {"alice"}, exp : {LiveExp}, key : {ForgedKey}]
    \cup {AbsentToken, MalformedToken}

create_access_token(sub, expires_delta) ==
  [sub |-> sub, exp |-> now + expires_delta, key |-> SECRET_KEY]

\* jwt.decode(token, SECRET_KEY, algorithms=[ALGORITHM]): signature and exp
\* jwt.decode had it not verified the signature
jwt_decode_fails_unsigned(token) == token.exp < now

jwt_decode_fails(token) ==
  \/ token.key # SECRET_KEY
  \/ token.exp < now

jwt_decode(token) == IF jwt_decode_fails(token) THEN "JWTError" ELSE "payload"

\* ------------------------------------------------------------------ users
NoTwitterToken == [kind |-> "none", tid |-> NULL]

\* db.query(User).filter(User.username == username).first(), 0 for None
get_user(us, username) ==
  IF \E i \in 1..Len(us) : us[i].username = username
    THEN CHOOSE i \in 1..Len(us) :
           /\ us[i].username = username
           /\ \A j \in 1..Len(us) : us[j].username = username => i <= j
    ELSE 0

\* the user's id, 0 for False
\* authenticate_user had it skipped verify_password
authenticate_user_unverified(us, username, password) == get_user(us, username)

authenticate_user(us, username, password) ==
  LET user == get_user(us, username) IN
  IF user = 0 THEN 0
  ELSE IF ~verify_password(password, us[user].hashed_password) THEN 0
  ELSE user

\* the user's id, 0 for the credentials exception
get_current_user(token) ==
  IF jwt_decode(token) = "JWTError" THEN 0
  ELSE IF token.sub = NULL THEN 0
  ELSE get_user(users, token.sub)

\* the unique constraints of table users (NULLs never collide)
UsersUnique(us) ==
  \A i, j \in 1..Len(us) :
    i # j =>
      /\ us[i].username = NULL \/ us[i].username # us[j].username
      /\ us[i].twitter_user_id = NULL \/ us[i].twitter_user_id # us[j].twitter_user_id
      /\ us[i].twitter_username = NULL \/ us[i].twitter_username # us[j].twitter_username

\* ----------------------------------------------------------------- replies
Unauthorized(op, token) ==
  [op |-> op, status |-> 401, detail |-> "Could not validate credentials",
   headers |-> "WWW-Authenticate: Bearer", token |-> token, user |-> 0, id |-> 0]

\* a handler's HTTPException
Rejected(op, status, detail, token, user, id) ==
  [op |-> op, status |-> status, detail |-> detail, token |-> token, user |-> user, id |-> id]

\* -------------------------------------------------------------------- Init
Init ==
  /\ settings \in [DATABASE_URL : Backends,
                   TWITTER_API_KEY : {"", "app-key"},
                   TWITTER_CLIENT_ID : {"", "client-id"},
                   TWITTER_CLIENT_SECRET : {"", "client-secret"}]
  /\ now = 1
  /\ users = <<>>
  /\ tweets = <<>>
  /\ tweetSeq = 0
  /\ posts = <<>>
  /\ postSeq = 0
  /\ issued = {}
  /\ calls = [s \in 1..MaxCalls |-> [pc |-> "idle"]]
  /\ deleted = {}
  /\ content_logs = <<>>
  /\ strategies = [keys |-> <<"tweet", "thread", "reply">>,
                   map |-> [tweet |-> "TweetGenerationStrategy",
                            thread |-> "ThreadGenerationStrategy",
                            reply |-> "ReplyGenerationStrategy"]]
  /\ results = <<>>
  /\ publishing = [worker \in Workers |-> [pc |-> "idle"]]
  /\ published = {}
  /\ resp = [op |-> "none", status |-> 0]

\* the clock moves on
Tick ==
  /\ now < MaxTime
  /\ now' = now + 1
  /\ UNCHANGED <<settings, dbVars, frame, resp>>

\* POST /api/users/: register a password user
create_user(username, password) ==
  /\ IF get_user(users, username) # 0
       THEN /\ resp' = [op |-> "create_user", status |-> 400, detail |-> "already registered"]
            /\ UNCHANGED users
       ELSE /\ users' = Append(users,
                 [username |-> username,
                  hashed_password |-> get_password_hash(password),
                  twitter_user_id |-> NULL,
                  twitter_username |-> NULL,
                  twitter_access_token |-> NoTwitterToken,
                  twitter_refresh_token |-> NoTwitterToken])
            /\ resp' = [op |-> "create_user", status |-> 201, detail |-> username]
  /\ UNCHANGED <<settings, now, tweets, tweetSeq, posts, postSeq, frame>>

\* what POST /api/auth/token answers
\* login_for_access_token had it told an unknown username from a wrong password
LoginResponse_telling(username, password) ==
  LET user == authenticate_user(users, username, password) IN
  IF user = 0
    THEN [status |-> 401,
          detail |-> IF get_user(users, username) = 0
                       THEN "Unknown username" ELSE "Incorrect password",
          headers |-> "WWW-Authenticate: Bearer",
          access_token |-> AbsentToken]
    ELSE [status |-> 200,
          detail |-> "",
          headers |-> "",
          access_token |-> create_access_token(users[user].username,
                                               ACCESS_TOKEN_EXPIRE_MINUTES)]

LoginResponse(username, password) ==
  LET user == authenticate_user(users, username, password) IN
  IF user = 0
    THEN [status |-> 401,
          detail |-> "Incorrect username or password",
          headers |-> "WWW-Authenticate: Bearer",
          access_token |-> AbsentToken]
    ELSE [status |-> 200,
          detail |-> "",
          headers |-> "",
          access_token |-> create_access_token(users[user].username,
                                               ACCESS_TOKEN_EXPIRE_MINUTES)]

login_for_access_token(username, password) ==
  /\ resp' = [op |-> "login", username |-> username, password |-> password,
              status |-> LoginResponse(username, password).status,
              response |-> LoginResponse(username, password)]
  /\ UNCHANGED <<settings, now, dbVars, frame>>

\* ----------------------------------------------------------------- tables
Max(S) == CHOOSE m \in S : \A x \in S : x <= m

\* the id the engine gives a new row: sqlite's INTEGER PRIMARY KEY takes one
\* more than the largest id in the table, postgresql draws from the sequence
NextRowId(table, seq) ==
  IF settings.DATABASE_URL = "sqlite"
    THEN (IF DOMAIN table = {} THEN 1 ELSE Max(DOMAIN table) + 1)
    ELSE seq + 1

NextSeq(seq) == IF settings.DATABASE_URL = "sqlite" THEN seq ELSE seq + 1

\* a DateTime(timezone=True) column as the engine hands it back: postgresql's
\* timestamptz comes back with an offset, sqlite's text comes back without
Stored(dt) ==
  IF dt = NoTime THEN NoTime
  ELSE [t |-> dt.t, aware |-> settings.DATABASE_URL = "postgresql"]

\* db.add had the commit been left out
Insert_uncommitted(table, id, row) == table

Insert(table, id, row) == [i \in DOMAIN table \cup {id} |-> IF i = id THEN row ELSE table[i]]

\* db.delete had the commit been left out
Delete_uncommitted(table, id) == table

Delete(table, id) == [i \in DOMAIN table \ {id} |-> table[i]]

\* ----------------------------------------------------------------- tweets
TweetIds == 1..MaxRows

\* tweets.py TweetResponse of a row
TweetResponse(id, row) ==
  [id |-> id, content |-> row.content, status |-> row.status,
   is_scheduled |-> row.is_scheduled, scheduled_at |-> row.scheduled_at]

\* db.query(Tweet).filter(Tweet.id == tweet_id, Tweet.user_id == current_user.id).first()
OwnTweet(tweet_id, user) ==
  /\ tweet_id \in DOMAIN tweets
  /\ tweets[tweet_id].user_id = user

TweetNotFound(op, token, user, tweet_id) ==
  Rejected(op, 404, "Tweet not found", token, user, tweet_id)

\* tweets.py create_tweet
create_tweet(token, content, scheduled_at) ==
  LET current_user == get_current_user(token)
      id == NextRowId(tweets, tweetSeq)
      db_tweet == [user_id |-> current_user,
                   content |-> content,
                   scheduled_at |-> Stored(scheduled_at),
                   is_scheduled |-> scheduled_at # NoTime,
                   status |-> IF scheduled_at # NoTime THEN "scheduled" ELSE "draft"]
  IN
  /\ IF current_user = 0
       THEN /\ resp' = Unauthorized("create_tweet", token)
            /\ UNCHANGED <<tweets, tweetSeq>>
       ELSE /\ id <= MaxRows
            /\ tweets' = Insert(tweets, id, db_tweet)
            /\ tweetSeq' = NextSeq(tweetSeq)
            /\ resp' = [op |-> "create_tweet", status |-> 201, token |-> token,
                        user |-> current_user, id |-> id,
                        request |-> [content |-> content, scheduled_at |-> scheduled_at],
                        body |-> TweetResponse(id, db_tweet)]
  /\ UNCHANGED <<settings, now, users, posts, postSeq, frame>>

RECURSIVE SortedIds(_)
SortedIds(S) ==
  IF S = {} THEN <<>>
  ELSE LET m == CHOOSE x \in S : \A y \in S : x <= y IN <<m>> \o SortedIds(S \ {m})

\* .offset(skip).limit(limit) of a result list
Page(seq, skip, limit) ==
  SubSeq(seq, skip + 1, IF skip + limit < Len(seq) THEN skip + limit ELSE Len(seq))

\* tweets.py read_tweets
read_tweets(token, skip, limit) ==
  LET current_user == get_current_user(token)
      own == SortedIds({i \in DOMAIN tweets : tweets[i].user_id = current_user})
      page == Page(own, skip, limit)
  IN
  /\ IF current_user = 0
       THEN resp' = Unauthorized("read_tweets", token)
       ELSE resp' = [op |-> "read_tweets", status |-> 200, token |-> token, user |-> current_user,
                     body |-> [k \in 1..Len(page) |-> TweetResponse(page[k], tweets[page[k]])]]
  /\ UNCHANGED <<settings, now, dbVars, frame>>

\* what GET /api/tweets/{tweet_id} answers
ReadTweetResponse(token, tweet_id) ==
  LET current_user == get_current_user(token) IN
  IF current_user = 0
    THEN Unauthorized("read_tweet", token)
    ELSE IF ~OwnTweet(tweet_id, current_user)
      THEN TweetNotFound("read_tweet", token, current_user, tweet_id)
      ELSE [op |-> "read_tweet", status |-> 200, token |-> token, user |-> current_user,
            id |-> tweet_id, body |-> TweetResponse(tweet_id, tweets[tweet_id])]

read_tweet(token, tweet_id) ==
  /\ resp' = ReadTweetResponse(token, tweet_id)
  /\ UNCHANGED <<settings, now, dbVars, frame>>

\* a TweetUpdate body: which fields the request sets, and to what
\* (content NULL / scheduled_at 0 is an explicit JSON null)
TweetUpdates ==
  [has_content : BOOLEAN, content : Contents \cup {NULL},
   has_scheduled_at : BOOLEAN, scheduled_at : [t : 0..(MaxTime + 1), aware : BOOLEAN]]

WellFormedUpdate(u) ==
  /\ ~u.has_content => u.content = NULL
  /\ ~u.has_scheduled_at => u.scheduled_at = NoTime

\* tweets.py update_tweet
update_tweet(token, tweet_id, tweet_update) ==
  LET current_user == get_current_user(token)
      tweet == tweets[tweet_id]
      set1 == IF tweet_update.has_content
                THEN [tweet EXCEPT !.content = tweet_update.content] ELSE tweet
      set2 == IF tweet_update.has_scheduled_at
                THEN [set1 EXCEPT !.scheduled_at = Stored(tweet_update.scheduled_at)] ELSE set1
      set3 == IF tweet_update.scheduled_at # NoTime
                THEN [set2 EXCEPT !.is_scheduled = TRUE, !.status = "scheduled"] ELSE set2
  IN
  /\ WellFormedUpdate(tweet_update)
  /\ IF current_user = 0
       THEN /\ resp' = Unauthorized("update_tweet", token)
            /\ UNCHANGED tweets
       ELSE IF ~OwnTweet(tweet_id, current_user)
         THEN /\ resp' = TweetNotFound("update_tweet", token, current_user, tweet_id)
              /\ UNCHANGED tweets
         ELSE IF set3.content = NULL
           \* content is NOT NULL: the commit raises and nothing is stored
           THEN /\ resp' = [op |-> "update_tweet", status |-> 500,
                            detail |-> "Internal Server Error",
                            token |-> token, user |-> current_user, id |-> tweet_id]
                /\ UNCHANGED tweets
           ELSE /\ tweets' = [tweets EXCEPT ![tweet_id] = set3]
                /\ resp' = [op |-> "update_tweet", status |-> 200, token |-> token, user |-> current_user,
                            id |-> tweet_id, body |-> TweetResponse(tweet_id, set3)]
  /\ UNCHANGED <<settings, now, users, tweetSeq, posts, postSeq, frame>>

\* tweets.py delete_tweet
delete_tweet(token, tweet_id) ==
  LET current_user == get_current_user(token) IN
  /\ IF current_user = 0
       THEN /\ resp' = Unauthorized("delete_tweet", token)
            /\ UNCHANGED <<tweets, deleted>>
       ELSE IF ~OwnTweet(tweet_id, current_user)
         THEN /\ resp' = TweetNotFound("delete_tweet", token, current_user, tweet_id)
              /\ UNCHANGED <<tweets, deleted>>
         ELSE /\ tweets' = Delete(tweets, tweet_id)
              /\ deleted' = deleted \cup {tweet_id}
              /\ resp' = [op |-> "delete_tweet", status |-> 200, token |-> token, user |-> current_user,
                          id |-> tweet_id, detail |-> "Tweet deleted successfully"]
  /\ UNCHANGED <<settings, now, users, tweetSeq, posts, postSeq, oauthVars, content_logs, strategies, results, publishing, published>>

\* -------------------------------------------------------- scheduled posts
PostIds == 1..MaxRows

PENDING == "pending"
POSTED == "posted"
FAILED == "failed"
PostStatus == {PENDING, POSTED, FAILED}

PlatformTweetIds == {"1001"}

\* the guard of lines 124 and 162 had it let failed posts through
IsPending_or_failed(post) == post.status # POSTED

\* the guard of lines 124, 162 and 190 had it let posted posts through
IsPending_or_posted(post) == post.status # FAILED

\* post.status != PostStatus.PENDING, negated
IsPending(post) == post.status = PENDING

\* scheduled_posts.py ScheduledPostResponse of a row
ScheduledPostResponse(id, row) ==
  [id |-> id, content |-> row.content, scheduled_time |-> row.scheduled_time,
   status |-> row.status, tweet_id |-> row.tweet_id]

\* the query had it filtered on the id alone
OwnPost_of_anyone(post_id, user) == post_id \in DOMAIN posts

\* db.query(ScheduledPost).filter(id == post_id, user_id == current_user.id).first()
OwnPost(post_id, user) ==
  /\ post_id \in DOMAIN posts
  /\ posts[post_id].user_id = user

PostNotFound(op, token, user, post_id) ==
  Rejected(op, 404, "Scheduled post not found", token, user, post_id)

\* value <= datetime.utcnow(): utcnow() carries no offset, and python refuses
\* to order a datetime with an offset, or None, against it
NotAfterNow(value) ==
  IF value = NoTime \/ value.aware THEN "TypeError"
  ELSE IF value.t <= now THEN "true"
  ELSE "false"

InternalError(op, token, user, id) ==
  Rejected(op, 500, "Internal Server Error", token, user, id)

create_scheduled_post(token, content, scheduled_time) ==
  LET current_user == get_current_user(token)
      id == NextRowId(posts, postSeq)
      db_post == [user_id |-> current_user,
                  content |-> content,
                  scheduled_time |-> Stored(scheduled_time),
                  status |-> PENDING,
                  tweet_id |-> NULL]
      request == [scheduled_time |-> scheduled_time, at |-> now]
  IN
  /\ IF current_user = 0
       THEN /\ resp' = Unauthorized("create_scheduled_post", token)
            /\ UNCHANGED <<posts, postSeq>>
       ELSE IF NotAfterNow(scheduled_time) = "TypeError"
         THEN /\ resp' = [InternalError("create_scheduled_post", token, current_user, 0)
                            EXCEPT !.detail = request]
              /\ UNCHANGED <<posts, postSeq>>
         ELSE IF NotAfterNow(scheduled_time) = "true"
           THEN /\ resp' = [Rejected("create_scheduled_post", 400,
                                     "Scheduled time must be in the future",
                                     token, current_user, 0)
                              EXCEPT !.detail = request]
                /\ UNCHANGED <<posts, postSeq>>
           ELSE /\ id <= MaxRows
                /\ posts' = Insert(posts, id, db_post)
                /\ postSeq' = NextSeq(postSeq)
                /\ resp' = [op |-> "create_scheduled_post", status |-> 201,
                            detail |-> request, token |-> token,
                            user |-> current_user, id |-> id,
                            body |-> ScheduledPostResponse(id, db_post)]
  /\ UNCHANGED <<settings, now, users, tweets, tweetSeq, frame>>

\* ids of the rows in S, by scheduled_time ascending (ties by id)
RECURSIVE ByScheduledTime(_)
ByScheduledTime(S) ==
  IF S = {} THEN <<>>
  ELSE LET m == CHOOSE x \in S : \A y \in S :
                  \/ posts[x].scheduled_time.t < posts[y].scheduled_time.t
                  \/ posts[x].scheduled_time.t = posts[y].scheduled_time.t /\ x <= y
       IN <<m>> \o ByScheduledTime(S \ {m})

get_scheduled_posts(token, skip, limit, status_filter) ==
  LET current_user == get_current_user(token)
      own == {i \in DOMAIN posts : posts[i].user_id = current_user}
      filtered == IF status_filter = NULL THEN own
                  ELSE {i \in own : posts[i].status = status_filter}
      page == Page(ByScheduledTime(filtered), skip, limit)
  IN
  /\ IF current_user = 0
       THEN resp' = Unauthorized("get_scheduled_posts", token)
       ELSE IF status_filter # NULL /\ status_filter \notin PostStatus
         THEN resp' = Rejected("get_scheduled_posts", 400, "Invalid status filter",
                               token, current_user, 0)
         ELSE resp' = [op |-> "get_scheduled_posts", status |-> 200, token |-> token,
                       user |-> current_user, id |-> 0,
                       body |-> [k \in 1..Len(page) |->
                                   ScheduledPostResponse(page[k], posts[page[k]])]]
  /\ UNCHANGED <<settings, now, dbVars, frame>>

get_scheduled_post(token, post_id) ==
  LET current_user == get_current_user(token) IN
  /\ IF current_user = 0
       THEN resp' = Unauthorized("get_scheduled_post", token)
       ELSE IF ~OwnPost(post_id, current_user)
         THEN resp' = PostNotFound("get_scheduled_post", token, current_user, post_id)
         ELSE resp' = [op |-> "get_scheduled_post", status |-> 200, token |-> token,
                       user |-> current_user, id |-> post_id,
                       body |-> ScheduledPostResponse(post_id, posts[post_id])]
  /\ UNCHANGED <<settings, now, dbVars, frame>>

\* a ScheduledPostUpdate body: which fields the request sets, and to what
ScheduledPostUpdates ==
  [has_content : BOOLEAN, content : Contents \cup {NULL},
   has_scheduled_time : BOOLEAN, scheduled_time : [t : 0..(MaxTime + 1), aware : BOOLEAN]]

WellFormedPostUpdate(u) ==
  /\ ~u.has_content => u.content = NULL
  /\ ~u.has_scheduled_time => u.scheduled_time = NoTime

update_scheduled_post(token, post_id, post_update) ==
  LET current_user == get_current_user(token)
      post == posts[post_id]
      set1 == IF post_update.has_content
                THEN [post EXCEPT !.content = post_update.content] ELSE post
      set2 == IF post_update.has_scheduled_time
                THEN [set1 EXCEPT !.scheduled_time = Stored(post_update.scheduled_time)]
                ELSE set1
      check == IF post_update.has_scheduled_time
                 THEN NotAfterNow(post_update.scheduled_time) ELSE "false"
  IN
  /\ WellFormedPostUpdate(post_update)
  /\ IF current_user = 0
       THEN /\ resp' = Unauthorized("update_scheduled_post", token)
            /\ UNCHANGED posts
       ELSE IF ~OwnPost(post_id, current_user)
         THEN /\ resp' = PostNotFound("update_scheduled_post", token, current_user, post_id)
              /\ UNCHANGED posts
         ELSE IF ~IsPending(post)
           THEN /\ resp' = Rejected("update_scheduled_post", 400,
                                    "Can only update pending posts",
                                    token, current_user, post_id)
                /\ UNCHANGED posts
           ELSE IF check = "TypeError"
             THEN /\ resp' = InternalError("update_scheduled_post", token, current_user, post_id)
                  /\ UNCHANGED posts
             ELSE IF check = "true"
               THEN /\ resp' = Rejected("update_scheduled_post", 400,
                                        "Scheduled time must be in the future",
                                        token, current_user, post_id)
                    /\ UNCHANGED posts
               ELSE IF set2.content = NULL
                 \* content is NOT NULL: the commit raises and nothing is stored
                 THEN /\ resp' = InternalError("update_scheduled_post", token,
                                               current_user, post_id)
                      /\ UNCHANGED posts
                 ELSE /\ posts' = [posts EXCEPT ![post_id] = set2]
                      /\ resp' = [op |-> "update_scheduled_post", status |-> 200,
                                  token |-> token, user |-> current_user, id |-> post_id,
                                  body |-> ScheduledPostResponse(post_id, set2)]
  /\ UNCHANGED <<settings, now, users, tweets, tweetSeq, postSeq, frame>>

delete_scheduled_post(token, post_id) ==
  LET current_user == get_current_user(token) IN
  /\ IF current_user = 0
       THEN /\ resp' = Unauthorized("delete_scheduled_post", token)
            /\ UNCHANGED posts
       ELSE IF ~OwnPost(post_id, current_user)
         THEN /\ resp' = PostNotFound("delete_scheduled_post", token, current_user, post_id)
              /\ UNCHANGED posts
         ELSE IF ~IsPending(posts[post_id])
           THEN /\ resp' = Rejected("delete_scheduled_post", 400,
                                    "Can only delete pending posts",
                                    token, current_user, post_id)
                /\ UNCHANGED posts
           ELSE /\ posts' = Delete(posts, post_id)
                /\ resp' = [op |-> "delete_scheduled_post", status |-> 200, token |-> token,
                            user |-> current_user, id |-> post_id,
                            detail |-> "Scheduled post deleted successfully"]
  /\ UNCHANGED <<settings, now, users, tweets, tweetSeq, postSeq, frame>>

\* TwitterService.post_tweet on the service built from settings: with both
\* user tokens it posts as the user, otherwise as the application's own
\* account, which needs the application's credentials; `outcome` is what the
\* platform answers, a tweet id or NULL for an error
\* a service that calls create_tweet again when the first call fails
post_tweet_retrying(user_access_token, user_access_token_secret, outcome) ==
  [success |-> outcome # NULL, id |-> outcome, as |-> "user",
   create_tweet_calls |-> IF outcome = NULL THEN 2 ELSE 1]

\* a service that reports success without the id of the tweet
post_tweet_without_id(user_access_token, user_access_token_secret, outcome) ==
  [success |-> outcome # NULL, id |-> NULL, as |-> "user", create_tweet_calls |-> 1]

\* `create_tweet_calls` counts the calls of tweepy's create_tweet the service
\* made: one on either client, none when _ensure_client raises first
post_tweet(user_access_token, user_access_token_secret, outcome) ==
  IF user_access_token # NoTwitterToken /\ user_access_token_secret # NoTwitterToken
    THEN [success |-> outcome # NULL, id |-> outcome, as |-> "user",
          create_tweet_calls |-> 1]
    ELSE IF settings.TWITTER_API_KEY = ""
      THEN [success |-> FALSE, id |-> NULL, as |-> "nobody", create_tweet_calls |-> 0]
      ELSE [success |-> outcome # NULL, id |-> outcome, as |-> "application",
            create_tweet_calls |-> 1]

post_now(token, post_id, outcome) ==
  LET current_user == get_current_user(token)
      result == post_tweet(users[current_user].twitter_access_token,
                           users[current_user].twitter_refresh_token, outcome)
  IN
  /\ IF current_user = 0
       THEN /\ resp' = Unauthorized("post_now", token)
            /\ UNCHANGED posts
       ELSE IF ~OwnPost(post_id, current_user)
         THEN /\ resp' = PostNotFound("post_now", token, current_user, post_id)
              /\ UNCHANGED posts
         ELSE IF ~IsPending(posts[post_id])
           THEN /\ resp' = Rejected("post_now", 400, "Post is not pending",
                                    token, current_user, post_id)
                /\ UNCHANGED posts
           ELSE IF result.success
             THEN /\ posts' = [posts EXCEPT ![post_id].status = POSTED,
                                            ![post_id].tweet_id = result.id]
                  /\ resp' = [op |-> "post_now", status |-> 200, token |-> token,
                              user |-> current_user, id |-> post_id,
                              detail |-> result]
             ELSE /\ posts' = [posts EXCEPT ![post_id].status = FAILED]
                  /\ resp' = [Rejected("post_now", 500, "Failed to post tweet",
                                       token, current_user, post_id)
                                EXCEPT !.detail = result]
  /\ UNCHANGED <<settings, now, users, tweets, tweetSeq, postSeq, frame>>

\* post_now served by one of several server processes: the handler up to
\* the platform call (lines 179-194), which loads the row and checks it
post_now_load(worker, token, post_id) ==
  LET current_user == get_current_user(token) IN
  /\ publishing[worker].pc = "idle"
  /\ IF current_user = 0
       THEN /\ resp' = Unauthorized("post_now", token)
            /\ UNCHANGED publishing
       ELSE IF ~OwnPost(post_id, current_user)
         THEN /\ resp' = PostNotFound("post_now", token, current_user, post_id)
              /\ UNCHANGED publishing
         ELSE IF ~IsPending(posts[post_id])
           THEN /\ resp' = Rejected("post_now", 400, "Post is not pending",
                                    token, current_user, post_id)
                /\ UNCHANGED publishing
           ELSE /\ publishing' =
                     [publishing EXCEPT ![worker] =
                        [pc |-> "loaded", token |-> token, user |-> current_user,
                         post_id |-> post_id,
                         user_access_token |-> users[current_user].twitter_access_token,
                         user_access_token_secret |->
                           users[current_user].twitter_refresh_token]]
                /\ UNCHANGED resp
  /\ UNCHANGED <<settings, now, dbVars, issued, calls, deleted, content_logs, strategies,
                 results, published>>

\* the rest of the handler (lines 197-219): the platform call, whose answer
\* is `outcome`, a tweet id no tweet carries yet or NULL for an error, then
\* the assignments and the commit, which writes the columns assigned
post_now_publish(worker, outcome) ==
  LET call == publishing[worker]
      result == post_tweet(call.user_access_token, call.user_access_token_secret, outcome)
  IN
  /\ call.pc = "loaded"
  /\ \A tweet \in published : tweet.id # outcome
  /\ call.post_id \in DOMAIN posts
  /\ publishing' = [publishing EXCEPT ![worker] = [pc |-> "idle"]]
  /\ IF result.success
       THEN /\ published' = published \cup {[post_id |-> call.post_id, id |-> result.id]}
            /\ posts' = [posts EXCEPT ![call.post_id].status = POSTED,
                                      ![call.post_id].tweet_id = result.id]
            /\ resp' = [op |-> "post_now", status |-> 200, token |-> call.token,
                        user |-> call.user, id |-> call.post_id, detail |-> result]
       ELSE /\ UNCHANGED published
            /\ posts' = [posts EXCEPT ![call.post_id].status = FAILED]
            /\ resp' = [Rejected("post_now", 500, "Failed to post tweet",
                                 call.token, call.user, call.post_id)
                          EXCEPT !.detail = result]
  /\ UNCHANGED <<settings, now, users, tweets, tweetSeq, postSeq, issued, calls, deleted,
                 content_logs, strategies, results>>

\* ------------------------------------------------- OAuth 1.0a connection
\* what TwitterService.get_current_user_info can come to: the profile, an
\* error dictionary, None, or an exception
InfoOutcomes == {"profile", "error", "none", "raises"}

\* a users table without unique constraints
CommitUsers_unconstrained(us) == TRUE

\* the commit of a changed users table: the unique constraints hold or the
\* commit raises IntegrityError and nothing is stored
CommitUsers(us) == UsersUnique(us)

\* auth.py twitter_callback; `tid` is the account the platform grants access
\* to, NULL when get_access_tokens fails
twitter_callback(token, tid, info) ==
  LET current_user == get_current_user(token)
      with_tokens == [users[current_user] EXCEPT
                        !.twitter_access_token = [kind |-> "oauth1-token", tid |-> tid],
                        !.twitter_refresh_token = [kind |-> "oauth1-secret", tid |-> tid]]
      with_info == IF info = "profile"
                     THEN [with_tokens EXCEPT !.twitter_user_id = tid,
                                               !.twitter_username = PlatformUsername(tid)]
                     ELSE with_tokens
      changed == [users EXCEPT ![current_user] = with_info]
  IN
  /\ IF current_user = 0
       THEN /\ resp' = Unauthorized("twitter_callback", token)
            /\ UNCHANGED users
       ELSE IF tid = NULL
         THEN /\ resp' = Rejected("twitter_callback", 400,
                                  "Darn, Failed to get Twitter access tokens",
                                  token, current_user, 0)
              /\ UNCHANGED users
         ELSE IF ~CommitUsers(changed)
           THEN /\ resp' = InternalError("twitter_callback", token, current_user, 0)
                /\ UNCHANGED users
           ELSE /\ users' = changed
                /\ resp' = [op |-> "twitter_callback", status |-> 200, token |-> token,
                            user |-> current_user, id |-> 0,
                            detail |-> [twitter_username |-> with_info.twitter_username,
                                        twitter_user_id |-> with_info.twitter_user_id]]
  /\ UNCHANGED <<settings, now, tweets, tweetSeq, posts, postSeq, frame>>

\* auth.py get_twitter_status
get_twitter_status(token) ==
  LET current_user == get_current_user(token) IN
  /\ IF current_user = 0
       THEN resp' = Unauthorized("get_twitter_status", token)
       ELSE resp' = [op |-> "get_twitter_status", status |-> 200, token |-> token,
                     user |-> current_user, id |-> 0,
                     detail |-> [connected |->
                                   users[current_user].twitter_access_token # NoTwitterToken,
                                 twitter_username |-> users[current_user].twitter_username,
                                 twitter_user_id |-> users[current_user].twitter_user_id]]
  /\ UNCHANGED <<settings, now, dbVars, frame>>

\* auth.py disconnect_twitter
disconnect_twitter(token) ==
  LET current_user == get_current_user(token) IN
  /\ IF current_user = 0
       THEN /\ resp' = Unauthorized("disconnect_twitter", token)
            /\ UNCHANGED users
       ELSE /\ users' = [users EXCEPT ![current_user] =
                           [@ EXCEPT !.twitter_access_token = NoTwitterToken,
                                     !.twitter_refresh_token = NoTwitterToken,
                                     !.twitter_user_id = NULL,
                                     !.twitter_username = NULL]]
            /\ resp' = [op |-> "disconnect_twitter", status |-> 200, token |-> token,
                        user |-> current_user, id |-> 0,
                        detail |-> "Twitter account disconnected successfully"]
  /\ UNCHANGED <<settings, now, tweets, tweetSeq, posts, postSeq, frame>>

\* --------------------------------------------------------- text and bytes
\* the characters of codes 32 to 95 and of codes 97 to 126, in order
Ascii32 == " !\"#$%&'()*+,-./0123456789:;<=>?@ABCDEFGHIJKLMNOPQRSTUVWXYZ[\\]^_"
Ascii97 == "abcdefghijklmnopqrstuvwxyz{|}~"

CharAt(text, i) == SubSeq(text, i, i)

ord(c) ==
  IF \E i \in 1..Len(Ascii32) : CharAt(Ascii32, i) = c
    THEN 31 + (CHOOSE i \in 1..Len(Ascii32) : CharAt(Ascii32, i) = c)
    ELSE 96 + (CHOOSE i \in 1..Len(Ascii97) : CharAt(Ascii97, i) = c)

chr(n) == IF n < 96 THEN CharAt(Ascii32, n - 31) ELSE CharAt(Ascii97, n - 96)

\* str.encode('utf-8') of text within ASCII
encode_utf8(text) == [i \in 1..Len(text) |-> ord(CharAt(text, i))]

\* ------------------------------------------------------------- SHA-256
\* a 32-bit word is the pair of its 16-bit halves, high half first
RECURSIVE BitXor(_, _, _)
BitXor(a, b, n) ==
  IF n = 0 THEN 0 ELSE ((a + b) % 2) + 2 * BitXor(a \div 2, b \div 2, n - 1)

RECURSIVE BitAnd(_, _, _)
BitAnd(a, b, n) ==
  IF n = 0 THEN 0 ELSE ((a % 2) * (b % 2)) + 2 * BitAnd(a \div 2, b \div 2, n - 1)

XorW(a, b) == <<BitXor(a[1], b[1], 16), BitXor(a[2], b[2], 16)>>

AndW(a, b) == <<BitAnd(a[1], b[1], 16), BitAnd(a[2], b[2], 16)>>

NotW(a) == <<65535 - a[1], 65535 - a[2]>>

AddW(a, b) ==
  LET lo == a[2] + b[2]
      hi == a[1] + b[1] + (lo \div 65536)
  IN <<hi % 65536, lo % 65536>>

RotR(a, n) ==
  LET b == IF n >= 16 THEN <<a[2], a[1]>> ELSE a
      k == n % 16
  IN <<(b[1] \div 2^k) + (b[2] % 2^k) * 2^(16 - k),
       (b[2] \div 2^k) + (b[1] % 2^k) * 2^(16 - k)>>

ShR(a, n) ==
  IF n >= 16
    THEN <<0, a[1] \div 2^(n - 16)>>
    ELSE <<a[1] \div 2^n, (a[2] \div 2^n) + (a[1] % 2^n) * 2^(16 - n)>>

\* FIPS 180-4, 4.2.2 and 5.3.3
SHA256_K ==
  << <<17034, 12184>>, <<28983, 17553>>, <<46528, 64463>>, <<59829, 56229>>,
     <<14678, 49755>>, <<23025, 4593>>, <<37439, 33444>>, <<43804, 24277>>,
     <<55303, 43672>>, <<4739, 23297>>, <<9265, 34238>>, <<21772, 32195>>,
     <<29374, 23924>>, <<32990, 45566>>, <<39900, 1703>>, <<49563, 61812>>,
     <<58523, 27073>>, <<61374, 18310>>, <<4033, 40390>>, <<9228, 41420>>,
     <<11753, 11375>>, <<19060, 33962>>, <<23728, 43484>>, <<30457, 35034>>,
     <<38974, 20818>>, <<43057, 50797>>, <<45059, 10184>>, <<48985, 32711>>,
     <<50912, 3059>>, <<54695, 37191>>, <<1738, 25425>>, <<5161, 10599>>,
     <<10167, 2693>>, <<11803, 8504>>, <<19756, 28156>>, <<21304, 3347>>,
     <<25866, 29524>>, <<30314, 2747>>, <<33218, 51502>>, <<37490, 11397>>,
     <<41663, 59553>>, <<43034, 26187>>, <<49739, 35696>>, <<51052, 20899>>,
     <<53650, 59417>>, <<54937, 1572>>, <<62478, 13701>>, <<4202, 41072>>,
     <<6564, 49430>>, <<7735, 27656>>, <<10056, 30540>>, <<13488, 48309>>,
     <<14620, 3251>>, <<20184, 43594>>, <<23452, 51791>>, <<26670, 28659>>,
     <<29839, 33518>>, <<30885, 25455>>, <<33992, 30740>>, <<36039, 520>>,
     <<37054, 65530>>, <<42064, 27883>>, <<48889, 41975>>, <<50801, 30962>> >>

SHA256_H0 ==
  << <<27145, 58983>>, <<47975, 44677>>, <<15470, 62322>>, <<42319, 62778>>,
     <<20750, 21119>>, <<39685, 26764>>, <<8067, 55723>>, <<23520, 52505>> >>

\* FIPS 180-4, 5.1.1: the message, 0x80, zeros, and the bit length in 64 bits
Pad(message) ==
  LET l == Len(message)
      zeros == (55 - l) % 64
      bits == 8 * l
  IN message \o <<128>> \o [i \in 1..zeros |-> 0]
       \o <<0, 0, 0, 0, (bits \div 16777216) % 256, (bits \div 65536) % 256,
            (bits \div 256) % 256, bits % 256>>

\* FIPS 180-4, 6.2.2 step 1: the message schedule of the block at offset
RECURSIVE Schedule(_, _)
Schedule(W, t) ==
  IF Len(W) >= 64 THEN W
  ELSE LET s0 == XorW(XorW(RotR(W[t - 15], 7), RotR(W[t - 15], 18)), ShR(W[t - 15], 3))
           s1 == XorW(XorW(RotR(W[t - 2], 17), RotR(W[t - 2], 19)), ShR(W[t - 2], 10))
       IN Schedule(Append(W, AddW(AddW(W[t - 16], s0), AddW(W[t - 7], s1))), t + 1)

\* FIPS 180-4, 6.2.2 step 3: rounds t..64 over the working variables v
RECURSIVE Rounds(_, _, _)
Rounds(v, W, t) ==
  IF Len(v) = 8 /\ t > 64 THEN v
  ELSE LET a == v[1]
           e == v[5]
           S1 == XorW(XorW(RotR(e, 6), RotR(e, 11)), RotR(e, 25))
           ch == XorW(AndW(e, v[6]), AndW(NotW(e), v[7]))
           T1 == AddW(AddW(AddW(v[8], S1), AddW(ch, SHA256_K[t])), W[t])
           S0 == XorW(XorW(RotR(a, 2), RotR(a, 13)), RotR(a, 22))
           maj == XorW(XorW(AndW(a, v[2]), AndW(a, v[3])), AndW(v[2], v[3]))
           T2 == AddW(S0, maj)
       IN Rounds(<<AddW(T1, T2), a, v[2], v[3], AddW(v[4], T1), e, v[6], v[7]>>, W, t + 1)

\* FIPS 180-4, 6.2.2 step 4
AddAll(H, v) ==
  <<AddW(H[1], v[1]), AddW(H[2], v[2]), AddW(H[3], v[3]), AddW(H[4], v[4]),
    AddW(H[5], v[5]), AddW(H[6], v[6]), AddW(H[7], v[7]), AddW(H[8], v[8])>>

\* the 16 words of the block of the padded message at offset
BlockWords(padded, offset) ==
  [t \in 1..16 |-> <<padded[offset + 4 * t - 3] * 256 + padded[offset + 4 * t - 2],
                     padded[offset + 4 * t - 1] * 256 + padded[offset + 4 * t]>>]

RECURSIVE Blocks(_, _, _)
Blocks(H, padded, offset) ==
  IF Len(H) = 8 /\ offset >= Len(padded) THEN H
  ELSE Blocks(AddAll(H, Rounds(H, Schedule(BlockWords(padded, offset), 17), 1)),
              padded, offset + 64)

\* the bytes of eight words, most significant first
WordBytes(H) ==
  [i \in 1..32 |->
     IF i % 4 = 1 THEN H[(i + 3) \div 4][1] \div 256
     ELSE IF i % 4 = 2 THEN H[(i + 3) \div 4][1] % 256
     ELSE IF i % 4 = 3 THEN H[(i + 3) \div 4][2] \div 256
     ELSE H[(i + 3) \div 4][2] % 256]

\* hashlib.sha256(message).digest(): the 32 bytes of the digest
sha256(message) == WordBytes(Blocks(SHA256_H0, Pad(message), 0))

\* -------------------------------------------------------------- base64
B64Alphabet == "ABCDEFGHIJKLMNOPQRSTUVWXYZabcdefghijklmnopqrstuvwxyz0123456789-_"

b64char(n) == CharAt(B64Alphabet, n + 1)

\* the characters of the bytes of s from position i on
RECURSIVE b64encode_from(_, _)
b64encode_from(s, i) ==
  LET n == Len(s) - i + 1 IN
  IF n <= 0 THEN ""
  ELSE IF n = 1
    THEN b64char(s[i] \div 4) \o b64char((s[i] % 4) * 16) \o "=="
  ELSE IF n = 2
    THEN b64char(s[i] \div 4) \o b64char((s[i] % 4) * 16 + s[i + 1] \div 16)
           \o b64char((s[i + 1] % 16) * 4) \o "="
  ELSE b64char(s[i] \div 4) \o b64char((s[i] % 4) * 16 + s[i + 1] \div 16)
         \o b64char((s[i + 1] % 16) * 4 + s[i + 2] \div 64) \o b64char(s[i + 2] % 64)
         \o b64encode_from(s, i + 3)

\* base64.urlsafe_b64encode(s).decode('utf-8')
urlsafe_b64encode(s) == b64encode_from(s, 1)

\* str.rstrip(c)
rstrip(text, c) ==
  LET kept == {i \in 1..Len(text) : CharAt(text, i) # c}
  IN IF kept = {} THEN ""
     ELSE SubSeq(text, 1, CHOOSE i \in kept : \A j \in kept : j <= i)

\* ------------------------------------------------------- OAuth 2.0 PKCE
\* the byte strings secrets.token_bytes(32) hands out in the model: the
\* octets of RFC 7636 appendix B, and two more
TokenBytes ==
  << <<116, 24, 223, 180, 151, 153, 224, 37, 79, 250, 96, 125, 216, 173, 187, 186,
       22, 212, 37, 77, 105, 214, 191, 240, 91, 88, 5, 88, 83, 132, 141, 121>>,
     [i \in 1..32 |-> i - 1],
     [i \in 1..32 |-> 256 - i] >>

RandomSeeds == 1..Len(TokenBytes)

Codes == {"code-1"}

token_bytes(rnd) == TokenBytes[rnd]

\* base64.urlsafe_b64encode(...).rstrip('=') of each draw, encoded once
UrlsafeTexts ==
  <<rstrip(urlsafe_b64encode(token_bytes(1)), "="),
    rstrip(urlsafe_b64encode(token_bytes(2)), "="),
    rstrip(urlsafe_b64encode(token_bytes(3)), "=")>>

\* secrets.token_urlsafe(32), over the bytes of draw rnd
token_urlsafe(rnd) == UrlsafeTexts[rnd]

\* auth.py generate_code_verifier, over the bytes of draw rnd
generate_code_verifier(rnd) == UrlsafeTexts[rnd]

\* generate_code_challenge had it kept the padding
generate_code_challenge_padded(code_verifier) ==
  urlsafe_b64encode(sha256(encode_utf8(code_verifier)))

\* auth.py generate_code_challenge
generate_code_challenge(code_verifier) ==
  rstrip(urlsafe_b64encode(sha256(encode_utf8(code_verifier))), "=")

In(c, text) == \E i \in 1..Len(text) : CharAt(text, i) = c

Unreserved == "ABCDEFGHIJKLMNOPQRSTUVWXYZabcdefghijklmnopqrstuvwxyz0123456789_.-~"

HexDigits == "0123456789ABCDEF"

\* urllib.parse.quote_plus of one character, with no safe characters
quote_char(c) ==
  IF c = " " THEN "+"
  ELSE IF In(c, Unreserved) THEN c
  ELSE "%" \o CharAt(HexDigits, (ord(c) \div 16) + 1) \o CharAt(HexDigits, (ord(c) % 16) + 1)

RECURSIVE quote_from(_, _)
quote_from(text, i) ==
  IF i > Len(text) THEN "" ELSE quote_char(CharAt(text, i)) \o quote_from(text, i + 1)

quote_plus(text) == quote_from(text, 1)

RECURSIVE urlencode_from(_, _)
urlencode_from(params, k) ==
  IF k > Len(params) THEN ""
  ELSE (IF k = 1 THEN "" ELSE "&")
         \o quote_plus(params[k][1]) \o "=" \o quote_plus(params[k][2])
         \o urlencode_from(params, k + 1)

\* urllib.parse.urlencode of the pairs of a dict, in its order
urlencode(params) == urlencode_from(params, 1)

\* lines 305-316: the authorization URL
AuthorizationUrl(client_id, redirect_uri, state, code_challenge) ==
  "https://twitter.com/i/oauth2/authorize?"
    \o urlencode(<< <<"response_type", "code">>,
                    <<"client_id", client_id>>,
                    <<"redirect_uri", redirect_uri>>,
                    <<"scope", "tweet.read users.read offline.access">>,
                    <<"state", state>>,
                    <<"code_challenge", code_challenge>>,
                    <<"code_challenge_method", "S256">> >>)

\* lines 300-322: the response over the draws rnd_v and rnd_s of secrets
TwitterOAuth2InitResponse(redirect_uri, rnd_v, rnd_s) ==
  [authorization_url |->
     AuthorizationUrl(settings.TWITTER_CLIENT_ID, redirect_uri, token_urlsafe(rnd_s),
                      generate_code_challenge(generate_code_verifier(rnd_v))),
   state |-> token_urlsafe(rnd_s),
   code_verifier |-> generate_code_verifier(rnd_v)]

\* one more init response
Issue(response) ==
  /\ issued' = issued \cup {response}
  /\ resp' = [op |-> "twitter_oauth2_init", status |-> 200, body |-> response]

\* auth.py twitter_oauth2_init
twitter_oauth2_init(redirect_uri, rnd_v, rnd_s) ==
  /\ IF settings.TWITTER_CLIENT_ID = ""
       THEN /\ resp' = [op |-> "twitter_oauth2_init", status |-> 500,
                        detail |-> "Twitter Client ID not configured"]
            /\ UNCHANGED issued
       ELSE IF settings.TWITTER_CLIENT_SECRET = ""
         THEN /\ resp' = [op |-> "twitter_oauth2_init", status |-> 500,
                          detail |-> "Twitter Client Secret not configured"]
              /\ UNCHANGED issued
         ELSE \* secrets never hands out the same bytes twice
              /\ rnd_v # rnd_s
              /\ \A r \in issued :
                   {r.code_verifier, r.state}
                     \cap {generate_code_verifier(rnd_v), token_urlsafe(rnd_s)} = {}
              /\ Issue(TwitterOAuth2InitResponse(redirect_uri, rnd_v, rnd_s))
  /\ UNCHANGED <<settings, now, dbVars, calls, deleted, content_logs, strategies, results, publishing, published>>

Slots == 1..MaxCalls

Idle == [pc |-> "idle"]

CallbackFailed(request, status, detail) ==
  [op |-> "twitter_oauth2_callback", status |-> status, detail |-> detail,
   request |-> request, user |-> 0, tid |-> NULL, access_token |-> AbsentToken]

\* the state the init response that carries code_verifier carries, if any
IssuedState(code_verifier) ==
  IF \E r \in issued : r.code_verifier = code_verifier
    THEN (CHOOSE r \in issued : r.code_verifier = code_verifier).state
    ELSE NULL

\* auth.py twitter_oauth2_callback, up to the first await: the request is
\* taken and the token request is posted to the platform; issued_state
\* records what init had handed out with the verifier when the request came
oauth2_callback_post_token(slot, code, state, code_verifier) ==
  /\ calls[slot].pc = "idle"
  /\ calls' = [calls EXCEPT ![slot] =
                 [pc |-> "token",
                  request |-> [code |-> code, state |-> state,
                               code_verifier |-> code_verifier,
                               issued_state |-> IssuedState(code_verifier)]]]
  /\ UNCHANGED <<settings, now, dbVars, issued, deleted, resp, content_logs, strategies, results, publishing, published>>

\* the token response had the handler gone on to the profile whatever the status
oauth2_callback_token_response_unchecked(slot, status_code, tid, has_refresh) ==
  /\ calls[slot].pc = "token"
  /\ calls' = [calls EXCEPT ![slot] =
                 [pc |-> "profile", request |-> calls[slot].request,
                  tid |-> tid, has_refresh |-> has_refresh]]
  /\ UNCHANGED resp
  /\ UNCHANGED <<settings, now, dbVars, issued, deleted, content_logs, strategies, results, publishing, published>>

\* the token response arrives: not 200 fails the request; 200 carries the
\* access token of account tid, with or without a refresh token, and the
\* profile request is sent
oauth2_callback_token_response(slot, status_code, tid, has_refresh) ==
  /\ calls[slot].pc = "token"
  /\ IF status_code # 200
       THEN /\ calls' = [calls EXCEPT ![slot] = Idle]
            /\ resp' = CallbackFailed(calls[slot].request, 400, "Failed to get access token")
       ELSE /\ calls' = [calls EXCEPT ![slot] =
                           [pc |-> "profile", request |-> calls[slot].request,
                            tid |-> tid, has_refresh |-> has_refresh]]
            /\ UNCHANGED resp
  /\ UNCHANGED <<settings, now, dbVars, issued, deleted, content_logs, strategies, results, publishing, published>>

\* the rows after the upsert of lines 380-407, before the commit
Upsert(us, tid, has_refresh) ==
  LET access_token == [kind |-> "oauth2-token", tid |-> tid]
      refresh_token == [kind |-> "oauth2-refresh", tid |-> tid]
      existing_user ==
        IF \E i \in 1..Len(us) : us[i].twitter_user_id = tid
          THEN CHOOSE i \in 1..Len(us) :
                 /\ us[i].twitter_user_id = tid
                 /\ \A j \in 1..Len(us) : us[j].twitter_user_id = tid => i <= j
          ELSE 0
  IN
  IF existing_user # 0
    THEN [user |-> existing_user,
          rows |-> [us EXCEPT ![existing_user] =
                      [@ EXCEPT !.twitter_access_token = access_token,
                                !.twitter_username = PlatformUsername(tid),
                                !.twitter_refresh_token =
                                   IF has_refresh THEN refresh_token ELSE @]]]
    ELSE [user |-> Len(us) + 1,
          rows |-> Append(us,
                     [username |-> PlatformUsername(tid),
                      hashed_password |-> NoHash,
                      twitter_user_id |-> tid,
                      twitter_username |-> PlatformUsername(tid),
                      twitter_access_token |-> access_token,
                      twitter_refresh_token |->
                        IF has_refresh THEN refresh_token ELSE NoTwitterToken])]

\* the profile response arrives: not 200 fails the request; 200 runs the
\* rest of the handler without another await
oauth2_callback_user_response(slot, status_code) ==
  LET call == calls[slot]
      upsert == Upsert(users, call.tid, call.has_refresh)
  IN
  /\ call.pc = "profile"
  /\ calls' = [calls EXCEPT ![slot] = Idle]
  /\ IF status_code # 200
       THEN /\ resp' = CallbackFailed(call.request, 400, "Failed to get user info")
            /\ UNCHANGED users
       ELSE IF ~CommitUsers(upsert.rows)
         \* IntegrityError, caught by the handler's except Exception
         THEN /\ resp' = [CallbackFailed(call.request, 500, "Authentication failed")
                            EXCEPT !.tid = call.tid]
              /\ UNCHANGED users
         ELSE /\ users' = upsert.rows
              /\ resp' = [op |-> "twitter_oauth2_callback", status |-> 200,
                          detail |-> IF Len(upsert.rows) > Len(users)
                                       THEN "created" ELSE "updated",
                          request |-> call.request,
                          user |-> upsert.user, tid |-> call.tid,
                          access_token |->
                            create_access_token(upsert.rows[upsert.user].username,
                                                ACCESS_TOKEN_EXPIRE_MINUTES)]
  /\ UNCHANGED <<settings, now, tweets, tweetSeq, posts, postSeq, issued, deleted, content_logs, strategies, results, publishing, published>>

\* ------------------------------------------------------- next-state relations
\* the tokens of ordinary traffic: each user's own, and none
SessionTokens ==
  [sub : Usernames, exp : {LiveExp}, key : {SECRET_KEY}] \cup {AbsentToken}

TweetTimes == {NoTime} \cup [t : {1}, aware : BOOLEAN]

\* the times a scheduling request names: the last minute, this one and the
\* next, with and without an offset
RequestTimes == [t : {now - 1, now, now + 1} \ {0}, aware : BOOLEAN]

Register == \E u \in Usernames : create_user(u, "pw1")

TweetOps(tokens) ==
  \E token \in tokens :
    \/ \E c \in Contents, s \in TweetTimes : create_tweet(token, c, s)
    \/ \E skip \in {0, 1} : read_tweets(token, skip, 100)
    \/ \E i \in TweetIds : read_tweet(token, i)
    \/ \E i \in TweetIds, c \in {NULL, "world"}, hc, hs \in BOOLEAN, t \in TweetTimes :
         update_tweet(token, i, [has_content |-> hc, content |-> c,
                                 has_scheduled_at |-> hs, scheduled_at |-> t])
    \/ \E i \in TweetIds : delete_tweet(token, i)

PostWrites(tokens) ==
  \E token \in tokens :
    \/ \E c \in Contents, s \in RequestTimes : create_scheduled_post(token, c, s)
    \/ \E i \in PostIds, c \in {NULL, "world"}, hc, hs \in BOOLEAN,
          t \in {NoTime} \cup RequestTimes :
         update_scheduled_post(token, i, [has_content |-> hc, content |-> c,
                                          has_scheduled_time |-> hs, scheduled_time |-> t])
    \/ \E i \in PostIds : delete_scheduled_post(token, i)
    \/ \E i \in PostIds, o \in PlatformTweetIds \cup {NULL} : post_now(token, i, o)

PostReads(tokens) ==
  \E token \in tokens :
    \/ \E skip \in {0, 1}, f \in {NULL, PENDING, "bogus"} :
         get_scheduled_posts(token, skip, 100, f)
    \/ \E i \in PostIds : get_scheduled_post(token, i)

\* the states a callback request can carry: what some init response holds,
\* and values no init handed out
CallbackStates == {token_urlsafe(r) : r \in RandomSeeds}

\* the verifiers a client holds: those the init responses carried
IssuedVerifiers == {r.code_verifier : r \in issued}

OAuth1(tokens, infos) ==
  \E token \in tokens :
    \/ \E tid \in TwitterIds \cup {NULL}, info \in infos : twitter_callback(token, tid, info)
    \/ disconnect_twitter(token)

OAuth2Init ==
  \E rv, rs \in RandomSeeds :
    twitter_oauth2_init("http://localhost:3000/auth/twitter/callback", rv, rs)

OAuth2Callback(states, verifiers, refresh) ==
  \E slot \in Slots :
    \/ \E c \in Codes, s \in states, v \in verifiers : oauth2_callback_post_token(slot, c, s, v)
    \/ \E sc \in {200, 400}, tid \in TwitterIds, hr \in refresh :
         oauth2_callback_token_response(slot, sc, tid, hr)
    \/ \E sc \in {200, 401} : oauth2_callback_user_response(slot, sc)

Next ==
  \/ Tick
  \/ \E u \in Usernames, p \in Passwords : create_user(u, p)
  \/ \E u \in Usernames \cup {"carol"}, p \in Passwords : login_for_access_token(u, p)
  \/ TweetOps(RequestTokens)
  \/ PostWrites(RequestTokens)
  \/ PostReads(RequestTokens)
  \/ OAuth1(RequestTokens, InfoOutcomes)
  \/ \E token \in RequestTokens : get_twitter_status(token)
  \/ OAuth2Init
  \/ OAuth2Callback(CallbackStates, {generate_code_verifier(r) : r \in RandomSeeds}, BOOLEAN)

Spec == Init /\ [][Next]_vars

Configured ==
  /\ settings.TWITTER_CLIENT_ID = "client-id"
  /\ settings.TWITTER_CLIENT_SECRET = "client-secret"

InitTweets ==
  /\ Init
  /\ Configured
  /\ settings.TWITTER_API_KEY = "app-key"

SpecTweets == InitTweets /\ [][Register \/ TweetOps(SessionTokens)]_vars

InitPosts ==
  /\ Init
  /\ Configured
  /\ settings.TWITTER_API_KEY = "app-key"

SpecPosts ==
  InitPosts /\ [][Tick \/ create_user("alice", "pw1") \/ PostWrites(SessionTokens)]_vars

\* the tokens the authentication routes hand out carry the names of the users
AuthTokens ==
  [sub : {"alice", "carol"}, exp : {LiveExp}, key : {SECRET_KEY}] \cup {AbsentToken}

InitAuth ==
  /\ Init
  /\ Configured
  /\ settings.DATABASE_URL = "postgresql"
  /\ settings.TWITTER_API_KEY = "app-key"

\* accounts: registration, OAuth 1.0a connect and disconnect, OAuth 2.0 sign-in
SpecAuth ==
  InitAuth /\ [][\/ create_user("alice", "pw1")
                 \/ OAuth1(AuthTokens, {"profile", "error"})
                 \/ OAuth2Callback({token_urlsafe(2)}, {generate_code_verifier(1)}, {TRUE})]_vars

InitPkce ==
  /\ Init
  /\ settings.DATABASE_URL = "postgresql"
  /\ settings.TWITTER_API_KEY = "app-key"

\* the OAuth 2.0 PKCE flow: init, and callbacks carrying any state and verifier
SpecPkce ==
  InitPkce /\ [][\/ OAuth2Init
                 \/ OAuth2Callback(CallbackStates, IssuedVerifiers, {TRUE})]_vars

\* password login, over registered users and users the OAuth 2.0 sign-in created
SpecLogin ==
  InitAuth /\ [][\/ \E u \in Usernames, p \in Passwords : create_user(u, p)
                 \/ \E u \in Usernames \cup {"carol"}, p \in Passwords :
                      login_for_access_token(u, p)
                 \/ OAuth2Callback({token_urlsafe(2)}, {generate_code_verifier(1)}, {TRUE})]_vars

\* every tweet and scheduled-post route, under every kind of bearer token
GuardedOps ==
  \E token \in RequestTokens :
    \/ create_tweet(token, "hello", NoTime)
    \/ read_tweets(token, 0, 100)
    \/ \E i \in TweetIds : read_tweet(token, i)
    \/ \E i \in TweetIds :
         update_tweet(token, i, [has_content |-> TRUE, content |-> "world",
                                 has_scheduled_at |-> FALSE, scheduled_at |-> NoTime])
    \/ \E i \in TweetIds : delete_tweet(token, i)
    \/ create_scheduled_post(token, "hello", [t |-> now + 1, aware |-> FALSE])
    \/ get_scheduled_posts(token, 0, 100, NULL)
    \/ \E i \in PostIds : get_scheduled_post(token, i)
    \/ \E i \in PostIds :
         update_scheduled_post(token, i, [has_content |-> TRUE, content |-> "world",
                                          has_scheduled_time |-> FALSE,
                                          scheduled_time |-> NoTime])
    \/ \E i \in PostIds : delete_scheduled_post(token, i)
    \/ \E i \in PostIds, o \in PlatformTweetIds \cup {NULL} : post_now(token, i, o)

InitGuard ==
  /\ InitPosts
  /\ settings.DATABASE_URL = "postgresql"

SpecGuard == InitGuard /\ [][create_user("alice", "pw1") \/ GuardedOps]_vars

InitPublish ==
  /\ Init
  /\ Configured
  /\ settings.DATABASE_URL = "postgresql"

\* publishing: a user, with or without a connected account, schedules posts
\* and publishes them at once, under either setting of the application's key
SpecPublish ==
  InitPublish /\ [][\/ Tick
                    \/ create_user("alice", "pw1")
                    \/ \E token \in SessionTokens :
                         \/ twitter_callback(token, "T1", "profile")
                         \/ create_scheduled_post(token, "hello",
                                                  [t |-> now + 1, aware |-> FALSE])
                         \/ \E i \in PostIds : delete_scheduled_post(token, i)
                         \/ \E i \in PostIds, o \in PlatformTweetIds \cup {NULL} :
                              post_now(token, i, o)]_vars

\* two users, each with tweets and scheduled posts, and every route that
\* takes a row id or lists rows, under either user's token
UserTokens == [sub : Usernames, exp : {LiveExp}, key : {SECRET_KEY}]

SpecIsolation ==
  InitAuth
    /\ [][\/ create_user("alice", "pw1")
          \/ Len(users) = 1 /\ create_user("bob", "pw1")
          \/ \E token \in UserTokens :
               \/ create_tweet(token, "hello", NoTime)
               \/ read_tweets(token, 0, 100)
               \/ \E i \in TweetIds :
                    \/ read_tweet(token, i)
                    \/ update_tweet(token, i, [has_content |-> TRUE, content |-> "world",
                                               has_scheduled_at |-> FALSE,
                                               scheduled_at |-> NoTime])
                    \/ delete_tweet(token, i)
               \/ create_scheduled_post(token, "hello", [t |-> now + 1, aware |-> FALSE])
               \/ get_scheduled_posts(token, 0, 100, NULL)
               \/ \E i \in PostIds :
                    \/ get_scheduled_post(token, i)
                    \/ update_scheduled_post(token, i,
                                             [has_content |-> TRUE, content |-> "world",
                                              has_scheduled_time |-> FALSE,
                                              scheduled_time |-> NoTime])
                    \/ delete_scheduled_post(token, i)
                    \/ post_now(token, i, "1001")]_vars

\* one user's post_now requests served by two server processes side by side
SpecRace ==
  InitAuth
    /\ [][\/ Tick
          \/ create_user("alice", "pw1")
          \/ \E token \in SessionTokens :
               \/ create_scheduled_post(token, "hello", [t |-> now + 1, aware |-> FALSE])
               \/ \E worker \in Workers, i \in PostIds : post_now_load(worker, token, i)
          \/ \E worker \in Workers, o \in {"1001", "1002", NULL} :
               post_now_publish(worker, o)]_vars

\* two users who connect and disconnect twitter accounts over OAuth 1.0a
\* and ask for their connection status
SpecConnect ==
  InitAuth
    /\ [][\/ create_user("alice", "pw1")
          \/ Len(users) = 1 /\ create_user("bob", "pw1")
          \/ OAuth1(UserTokens, InfoOutcomes)
          \/ \E token \in UserTokens : get_twitter_status(token)]_vars

\* -------------------------------------------------------- error handling
\* core/constants.py
ResponseMessages_INTERNAL_ERROR == "Internal server error"
ErrorMessages_GENERATION_FAILED == "Content generation failed. Please try again."
ErrorMessages_EXTERNAL_API_ERROR == "External service is temporarily unavailable"

\* core/exceptions.py and the built-in classes: each class's base class
Bases ==
  [c \in {"ValidationError", "AuthenticationError", "AuthorizationError",
          "ExternalServiceError", "DatabaseError", "ContentGenerationError"}
     |-> "AutoReachException"]
  @@ [c \in {"TwitterAPIError", "OpenAIAPIError"} |-> "ExternalServiceError"]
  @@ [c \in {"AutoReachException", "HTTPException", "ValueError"} |-> "Exception"]
  @@ [c \in {"Exception"} |-> "BaseException"]

ExceptionClasses == DOMAIN Bases

RECURSIVE issubclass(_, _)
issubclass(cls, classinfo) ==
  IF cls = classinfo THEN TRUE
  ELSE IF cls \notin DOMAIN Bases THEN FALSE
  ELSE issubclass(Bases[cls], classinfo)

\* isinstance(e, classinfo), which is what an except clause tests
isinstance(e, classinfo) == issubclass(e.cls, classinfo)

\* raise HTTPException(status_code=..., detail=...), with the record logged
HTTPException(status_code, detail, level, record, func, e) ==
  [kind |-> "raises", cls |-> "HTTPException", status_code |-> status_code,
   detail |-> detail,
   log |-> [level |-> level, text |-> record \o " in " \o func \o ": " \o e.message]]

\* the wrapper of handle_service_errors around a call of `func` that came to
\* `outcome`; `internal_error` is the detail of the last two clauses
wrapper(func, outcome, internal_error) ==
  LET e == outcome.exception IN
  IF outcome.kind = "returns"
    THEN [kind |-> "returns", value |-> outcome.value]
  ELSE IF isinstance(e, "ValidationError")
    THEN HTTPException(400, e.message, "warning", "Validation error", func, e)
  ELSE IF isinstance(e, "ContentGenerationError")
    THEN HTTPException(500, ErrorMessages_GENERATION_FAILED, "error",
                       "Content generation error", func, e)
  ELSE IF isinstance(e, "OpenAIAPIError")
    THEN HTTPException(503, ErrorMessages_EXTERNAL_API_ERROR, "error",
                       "OpenAI API error", func, e)
  ELSE IF isinstance(e, "DatabaseError")
    THEN HTTPException(500, internal_error, "error", "Database error", func, e)
  ELSE IF isinstance(e, "Exception")
    THEN HTTPException(500, internal_error, "error", "Unexpected error", func, e)
  ELSE [kind |-> "raises", cls |-> e.cls, message |-> e.message]

\* a wrapper that passes the text of an unexpected exception to the client
handle_service_errors_leaking(func, outcome) ==
  wrapper(func, outcome, outcome.exception.message)

handle_service_errors(func, outcome) ==
  wrapper(func, outcome, ResponseMessages_INTERNAL_ERROR)

\* the coroutines wrapped, the texts their exceptions carry (str(e)) and
\* what a call of one can come to
WrappedFunctions == {"test_function", "generate_tweet", "generate_thread"}

ExceptionTexts == {"Topic is required", "disk full", "key sk-123 rejected"}

CallOutcomes ==
  [kind : {"returns"}, value : {"success", "none"}]
    \cup [kind : {"raises"}, exception : [cls : ExceptionClasses, message : ExceptionTexts]]

\* one call of a wrapped coroutine
handled_call(func, outcome) ==
  /\ resp' = [op |-> "handle_service_errors", status |-> 0, func |-> func,
              outcome |-> outcome, result |-> handle_service_errors(func, outcome)]
  /\ UNCHANGED <<settings, now, dbVars, frame>>

\* the state the library code is exercised from: one configuration, no rows
InitLibrary ==
  /\ Init
  /\ Configured
  /\ settings.DATABASE_URL = "postgresql"
  /\ settings.TWITTER_API_KEY = "app-key"

SpecErrors ==
  InitLibrary /\ [][\E f \in WrappedFunctions, o \in CallOutcomes : handled_call(f, o)]_vars

\* ------------------------------------------------------------ validation
\* core/constants.py
TwitterConstants_MAX_TWEET_LENGTH == 280
TwitterConstants_MAX_THREAD_TWEETS == 25
TwitterConstants_DEFAULT_THREAD_SIZE == 3
ValidationRules_MIN_TOPIC_LENGTH == 3
ValidationRules_MAX_TOPIC_LENGTH == 200
ValidationRules_MIN_CONTENT_LENGTH == 1
ValidationRules_MAX_CONTENT_LENGTH == 2000
ValidationRules_MIN_THREAD_SIZE == 2
ValidationRules_MAX_THREAD_SIZE == 25
ContentConstants_DEFAULT_STYLE == "engaging"
ContentConstants_DEFAULT_LANGUAGE == "en"
ContentConstants_SUPPORTED_LANGUAGES == <<"en", "es", "fr", "de", "it", "pt">>
ContentConstants_SUPPORTED_STYLES ==
  <<"engaging", "professional", "casual", "educational", "humorous", "informative",
    "helpful">>
ContentModes_NEW_TWEET == "new_tweet"
ContentModes_REPLY == "reply"
ContentModes_THREAD == "thread"

\* Python values that are not text: an int, a bool (a subclass of int), a
\* float, a str holding a number, None
PyInt(n) == [type |-> "int", value |-> n]
PyBool(b) == [type |-> "bool", value |-> IF b THEN 1 ELSE 0]
PyFloat(n) == [type |-> "float", value |-> n]
PyStr(n) == [type |-> "str", value |-> n]
PyNone == [type |-> "NoneType", value |-> 0]

\* isinstance(value, int)
is_int(value) == value.type \in {"int", "bool"}

\* str(n) of a natural number
RECURSIVE str(_)
str(n) == IF n < 10 THEN CharAt("0123456789", n + 1)
          ELSE str(n \div 10) \o CharAt("0123456789", (n % 10) + 1)

\* sep.join(items)
RECURSIVE join(_, _)
join(sep, items) ==
  IF Len(items) = 0 THEN ""
  ELSE IF Len(items) = 1 THEN items[1]
  ELSE items[1] \o sep \o join(sep, Tail(items))

\* value in items, for a list
in_list(value, items) == \E i \in 1..Len(items) : items[i] = value

\* str.isspace of one character (of those the texts here are made of)
isspace(c) == c \in {" ", "\t", "\n", "\r"}

\* text.strip(): the text without its leading and trailing whitespace
\* the first index from i on that holds no whitespace, Len(text) + 1 if none
lstrip_from(text, i) ==
  LET kept == {j \in i..Len(text) : ~isspace(CharAt(text, j))} IN
  IF kept = {} THEN Len(text) + 1 ELSE CHOOSE j \in kept : \A k \in kept : j <= k

\* the last index up to i that holds no whitespace, 0 if none
rstrip_from(text, i) ==
  LET kept == {j \in 1..i : ~isspace(CharAt(text, j))} IN
  IF kept = {} THEN 0 ELSE CHOOSE j \in kept : \A k \in kept : j >= k

strip(text) == SubSeq(text, lstrip_from(text, 1), rstrip_from(text, Len(text)))

\* data.get(key, default)
get(data, key, default) == IF key \in DOMAIN data THEN data[key] ELSE default

\* ValidationService.validate_content_generation_request
validate_content_generation_request(data) ==
  LET topic == strip(get(data, "topic", ""))
      style == get(data, "style", ContentConstants_DEFAULT_STYLE)
      language == get(data, "language", ContentConstants_DEFAULT_LANGUAGE)
      user_context == get(data, "user_context", NULL)
      errors ==
        (IF topic = "" THEN <<"Topic is required">>
         ELSE IF Len(topic) < ValidationRules_MIN_TOPIC_LENGTH
           THEN <<"Topic must be at least " \o str(ValidationRules_MIN_TOPIC_LENGTH)
                    \o " characters">>
         ELSE IF Len(topic) > ValidationRules_MAX_TOPIC_LENGTH
           THEN <<"Topic cannot exceed " \o str(ValidationRules_MAX_TOPIC_LENGTH)
                    \o " characters">>
         ELSE <<>>)
        \o (IF in_list(style, ContentConstants_SUPPORTED_STYLES) THEN <<>>
            ELSE <<"Style must be one of: "
                     \o join(", ", ContentConstants_SUPPORTED_STYLES)>>)
        \o (IF in_list(language, ContentConstants_SUPPORTED_LANGUAGES) THEN <<>>
            ELSE <<"Language must be one of: "
                     \o join(", ", ContentConstants_SUPPORTED_LANGUAGES)>>)
        \o (IF user_context \notin {NULL, ""}
                 /\ Len(user_context) > ValidationRules_MAX_CONTENT_LENGTH
              THEN <<"User context cannot exceed "
                       \o str(ValidationRules_MAX_CONTENT_LENGTH) \o " characters">>
              ELSE <<>>)
  IN [is_valid |-> Len(errors) = 0, errors |-> errors]

\* a thread-size branch that lets one tweet more through
thread_size_errors_lenient(num_tweets) ==
  IF ~is_int(num_tweets) THEN <<"Number of tweets must be an integer">>
  ELSE IF num_tweets.value < 2 THEN <<"Thread must contain at least 2 tweets">>
  ELSE IF num_tweets.value > TwitterConstants_MAX_THREAD_TWEETS + 1
    THEN <<"Thread cannot exceed " \o str(TwitterConstants_MAX_THREAD_TWEETS) \o " tweets">>
  ELSE <<>>

\* the thread-size branch of validate_thread_generation_request
thread_size_errors(num_tweets) ==
  IF ~is_int(num_tweets) THEN <<"Number of tweets must be an integer">>
  ELSE IF num_tweets.value < 2 THEN <<"Thread must contain at least 2 tweets">>
  ELSE IF num_tweets.value > TwitterConstants_MAX_THREAD_TWEETS
    THEN <<"Thread cannot exceed " \o str(TwitterConstants_MAX_THREAD_TWEETS) \o " tweets">>
  ELSE <<>>

\* ValidationService.validate_thread_generation_request
validate_thread_generation_request(data) ==
  LET errors ==
        validate_content_generation_request(data).errors
          \o thread_size_errors(get(data, "num_tweets",
                                    PyInt(TwitterConstants_DEFAULT_THREAD_SIZE)))
  IN [is_valid |-> Len(errors) = 0, errors |-> errors]

\* ------------------------------------------------------ content services
\* raise cls(message, details)
Raised(cls, message, details) ==
  [kind |-> "raises", exception |-> [cls |-> cls, message |-> message, details |-> details]]

\* ContentService._log_content_generation on a session whose commit comes to
\* `commit`: "ok", or the text of the exception it raises; `table` is
\* content_logs as the session found it
\* (created_at is the column's server default, func.now())
\* a session whose failed commit is never rolled back
ContentService_log_content_generation_unrolled(table, user, prompt, generated_text, mode, commit) ==
  [kind |-> "returns",
   table |-> Append(table, [user_id |-> user, prompt |-> prompt,
                            generated_text |-> generated_text, mode |-> mode,
                            created_at |-> now]),
   db_calls |-> <<"add", "commit">>]

\* a log that files every generation as a new tweet
ContentService_log_content_generation_as_tweet(table, user, prompt, generated_text, mode, commit) ==
  [kind |-> "returns",
   table |-> Append(table, [user_id |-> user, prompt |-> prompt,
                            generated_text |-> generated_text,
                            mode |-> ContentModes_NEW_TWEET,
                            created_at |-> now]),
   db_calls |-> <<"add", "commit">>]

ContentService_log_content_generation(table, user, prompt, generated_text, mode, commit) ==
  LET content_log == [user_id |-> user, prompt |-> prompt,
                      generated_text |-> generated_text, mode |-> mode,
                      created_at |-> now]
  IN
  IF commit = "ok"
    THEN [kind |-> "returns", table |-> Append(table, content_log),
          db_calls |-> <<"add", "commit">>]
    ELSE [kind |-> "raises", table |-> table,
          db_calls |-> <<"add", "commit", "rollback">>,
          exception |-> [cls |-> "DatabaseError",
                         message |-> "Failed to log content generation: " \o commit,
                         details |-> <<>>]]

\* the except clause the three methods of ContentService end with
ContentService_reraise(failed, e) ==
  IF isinstance(e, "ContentGenerationError")
    THEN [kind |-> "raises", exception |-> e]
    ELSE Raised("ContentGenerationError", failed \o ": " \o e.message, <<>>)

\* the body the three methods of ContentService share: validate, generate,
\* log, return; `validation` is the validation service's answer, `call` the
\* generator call the method makes, `generated` what that call comes to
ContentService_unvalidated(failed, validation, call, mode, user, generated, commit) ==
  LET logged == ContentService_log_content_generation(
                  content_logs, user, generated.result.prompt,
                  generated.result.content, mode, commit)
  IN
  IF generated.kind = "raises"
    THEN [result |-> ContentService_reraise(failed, generated.exception),
          content_generator_calls |-> <<call>>, db_calls |-> <<>>, table |-> content_logs]
  ELSE IF logged.kind = "raises"
    THEN [result |-> ContentService_reraise(failed, logged.exception),
          content_generator_calls |-> <<call>>, db_calls |-> logged.db_calls,
          table |-> logged.table]
  ELSE [result |-> [kind |-> "returns", value |-> generated.result],
        content_generator_calls |-> <<call>>, db_calls |-> logged.db_calls,
        table |-> logged.table]

ContentService_generate(failed, validation, call, mode, user, generated, commit) ==
  IF ~validation.is_valid
    THEN [result |-> ContentService_reraise(
                       failed, Raised("ContentGenerationError", "Invalid input data",
                                      [errors |-> validation.errors]).exception),
          content_generator_calls |-> <<>>, db_calls |-> <<>>, table |-> content_logs]
    ELSE ContentService_unvalidated(failed, validation, call, mode, user, generated, commit)

\* what a service call leaves behind: the table, and the call with all it did
Served(op, user, request, generated, commit, done) ==
  /\ Len(content_logs) < MaxLogs
  /\ user \in DOMAIN users
  /\ content_logs' = done.table
  /\ resp' = [op |-> op, status |-> 0, user |-> user, request |-> request,
              generated |-> generated, commit |-> commit, before |-> content_logs,
              content_generator_calls |-> done.content_generator_calls,
              db_calls |-> done.db_calls, result |-> done.result]
  /\ UNCHANGED <<settings, now, dbVars, issued, calls, deleted, strategies, results, publishing, published>>

\* ContentService.generate_tweet
ContentService_generate_tweet(request, user, generated, commit) ==
  Served("ContentService.generate_tweet", user, request, generated, commit,
         ContentService_generate(
           "Tweet generation failed", validate_content_generation_request(request),
           [method |-> "generate_tweet", kwargs |-> request],
           ContentModes_NEW_TWEET, user, generated, commit))

\* ContentService.generate_thread
ContentService_generate_thread(request, user, generated, commit) ==
  Served("ContentService.generate_thread", user, request, generated, commit,
         ContentService_generate(
           "Thread generation failed", validate_thread_generation_request(request),
           [method |-> "generate_thread", kwargs |-> request],
           ContentModes_THREAD, user, generated, commit))

\* ContentService.generate_reply, which validates nothing
ContentService_generate_reply(request, user, generated, commit) ==
  Served("ContentService.generate_reply", user, request, generated, commit,
         ContentService_generate(
           "Reply generation failed", [is_valid |-> TRUE, errors |-> <<>>],
           [method |-> "generate_reply", kwargs |-> request],
           ContentModes_REPLY, user, generated, commit))

\* ContentService._log_content_generation called on its own
ContentService_log(user, prompt, generated_text, mode, commit) ==
  LET logged == ContentService_log_content_generation(
                  content_logs, user, prompt, generated_text, mode, commit)
  IN Served("ContentService._log_content_generation", user,
            [prompt |-> prompt, generated_text |-> generated_text, mode |-> mode],
            NULL, commit,
            [table |-> logged.table, db_calls |-> logged.db_calls,
             content_generator_calls |-> <<>>,
             result |-> IF logged.kind = "raises"
                          THEN [kind |-> "raises", exception |-> logged.exception]
                          ELSE [kind |-> "returns", value |-> NULL]])

\* ServiceErrorHandler.handle_generation_error
handle_generation_error(e) ==
  Raised("ContentGenerationError", "Content generation failed: " \o e.message, <<>>)

\* ServiceErrorHandler.handle_database_error
handle_database_error(e) ==
  Raised("DatabaseError", "Database operation failed: " \o e.message, <<>>)

\* ContentGenerationService.generate_tweet / generate_thread
ContentGenerationService_generate(generated) ==
  IF generated.kind = "raises"
    THEN handle_generation_error(generated.exception)
    ELSE generated

\* ContentLoggingService.log_content_generation
ContentLoggingService_log_content_generation(table, user, prompt, generated_text, mode, commit) ==
  LET content_log == [user_id |-> user, prompt |-> prompt,
                      generated_text |-> generated_text, mode |-> mode,
                      created_at |-> now]
  IN
  IF commit = "ok"
    THEN [kind |-> "returns", table |-> Append(table, content_log),
          db_calls |-> <<"add", "commit", "refresh">>]
    ELSE [kind |-> "raises", table |-> table,
          db_calls |-> <<"add", "commit", "rollback">>,
          exception |-> handle_database_error(
                          [cls |-> "Exception", message |-> commit]).exception]

\* ContentGenerationResult(...) as generate_and_log_tweet / _thread build it
ContentGenerationResult(result, metadata) ==
  [content |-> result.content, prompt |-> result.prompt,
   tokens_used |-> result.tokens_used, metadata |-> metadata]

\* the except clauses of generate_and_log_tweet / _thread
ContentOrchestrationService_reraise(e) ==
  IF isinstance(e, "ContentGenerationError")
    THEN [kind |-> "raises", exception |-> e]
    ELSE handle_generation_error(e)

\* the body generate_and_log_tweet and generate_and_log_thread share
ContentOrchestrationService_generate_and_log(validation, call, mode, metadata, user, generated, commit) ==
  LET result == ContentGenerationService_generate(generated)
      logged == ContentLoggingService_log_content_generation(
                  content_logs, user, result.result.prompt, result.result.content,
                  mode, commit)
  IN
  IF ~validation.is_valid
    THEN [result |-> Raised("ContentGenerationError", "Invalid input data",
                            [errors |-> validation.errors]),
          content_generator_calls |-> <<>>, db_calls |-> <<>>, table |-> content_logs]
  ELSE IF result.kind = "raises"
    THEN [result |-> ContentOrchestrationService_reraise(result.exception),
          content_generator_calls |-> <<call>>, db_calls |-> <<>>, table |-> content_logs]
  ELSE IF logged.kind = "raises"
    THEN [result |-> ContentOrchestrationService_reraise(logged.exception),
          content_generator_calls |-> <<call>>, db_calls |-> logged.db_calls,
          table |-> logged.table]
  ELSE [result |-> [kind |-> "returns",
                    value |-> ContentGenerationResult(result.result, metadata)],
        content_generator_calls |-> <<call>>, db_calls |-> logged.db_calls,
        table |-> logged.table]

\* ContentOrchestrationService.generate_and_log_tweet
generate_and_log_tweet(request, user, generated, commit) ==
  Served("ContentOrchestrationService.generate_and_log_tweet", user, request, generated, commit,
         ContentOrchestrationService_generate_and_log(
           validate_content_generation_request(request),
           [method |-> "generate_tweet", kwargs |-> request],
           ContentModes_NEW_TWEET,
           [style |-> request.style, language |-> request.language],
           user, generated, commit))

\* ContentOrchestrationService.generate_and_log_thread
generate_and_log_thread(request, user, generated, commit) ==
  Served("ContentOrchestrationService.generate_and_log_thread", user, request, generated, commit,
         ContentOrchestrationService_generate_and_log(
           validate_thread_generation_request(request),
           [method |-> "generate_thread", kwargs |-> request],
           ContentModes_THREAD,
           [num_tweets |-> request.num_tweets, style |-> request.style,
            language |-> request.language],
           user, generated, commit))

\* the ids of the rows the history query selects: those of the user, of the
\* mode asked for when mode_filter is truthy
HistoryRows(table, user, mode_filter) ==
  {i \in DOMAIN table :
     /\ table[i].user_id = user
     /\ mode_filter \in {NULL, ""} \/ table[i].mode = mode_filter}

\* ORDER BY created_at DESC: the orders the database may return the rows in
\* (rows of one created_at come in any order)
NewestFirst(table, ids) ==
  {order \in [1..Cardinality(ids) -> ids] :
     /\ \A a, b \in 1..Cardinality(ids) : a # b => order[a] # order[b]
     /\ \A a, b \in 1..Cardinality(ids) :
          a < b => table[order[a]].created_at >= table[order[b]].created_at}

\* OFFSET offset LIMIT limit
offset_limit(order, offset, limit) ==
  SubSeq(order, offset + 1,
         IF offset + limit < Len(order) THEN offset + limit ELSE Len(order))

\* ContentLoggingService.get_user_content_history; `order` is the order the
\* database returns the selected rows in, `query` is "ok" or the text of the
\* exception the query raises
ContentLoggingService_get_user_content_history(table, user, limit, offset, mode_filter, order, query) ==
  IF query = "ok"
    THEN [kind |-> "returns",
          value |-> [k \in DOMAIN offset_limit(order, offset, limit) |->
                       [id |-> offset_limit(order, offset, limit)[k],
                        log |-> table[offset_limit(order, offset, limit)[k]]]]]
    ELSE handle_database_error([cls |-> "Exception", message |-> query])

\* ContentLoggingService.get_content_statistics
ContentLoggingService_get_content_statistics(table, user) ==
  LET own == {i \in DOMAIN table : table[i].user_id = user} IN
  [total_generated |-> Cardinality(own),
   by_mode |-> [mode \in {table[i].mode : i \in own} |->
                  Cardinality({i \in own : table[i].mode = mode})]]

\* log.prompt[:100] + "..." if len(log.prompt) > 100 else log.prompt
prompt_preview(prompt) ==
  IF Len(prompt) > 100 THEN SubSeq(prompt, 1, 100) \o "..." ELSE prompt

\* pagination.has_more
has_more(history, limit) == Len(history) = limit

\* ContentOrchestrationService.get_user_content_history
ContentOrchestrationService_get_user_content_history(table, user, limit, offset, mode_filter, order, query) ==
  LET history == ContentLoggingService_get_user_content_history(
                   table, user, limit, offset, mode_filter, order, query)
      stats == ContentLoggingService_get_content_statistics(table, user)
  IN
  IF history.kind = "raises"
    THEN handle_database_error(history.exception)
    ELSE [kind |-> "returns",
          value |-> [history |-> [k \in DOMAIN history.value |->
                                    [id |-> history.value[k].id,
                                     mode |-> history.value[k].log.mode,
                                     generated_text |-> history.value[k].log.generated_text,
                                     created_at |-> history.value[k].log.created_at,
                                     prompt_preview |->
                                       prompt_preview(history.value[k].log.prompt)]],
                     statistics |-> stats,
                     pagination |-> [limit |-> limit, offset |-> offset,
                                     has_more |->
                                       has_more(history.value, limit)]]]

get_user_content_history(user, limit, offset, mode_filter, query) ==
  /\ user \in DOMAIN users
  /\ \E order \in NewestFirst(content_logs, HistoryRows(content_logs, user, mode_filter)) :
       resp' = [op |-> "ContentOrchestrationService.get_user_content_history",
                status |-> 0, user |-> user,
                request |-> [limit |-> limit, offset |-> offset,
                             mode_filter |-> mode_filter],
                result |-> ContentOrchestrationService_get_user_content_history(
                             content_logs, user, limit, offset, mode_filter, order, query)]
  /\ UNCHANGED <<settings, now, dbVars, frame>>

\* text of n copies of the character c
RECURSIVE Repeat(_, _)
Repeat(c, n) ==
  IF n = 0 THEN ""
  ELSE LET half == Repeat(c, n \div 2) IN
       IF n % 2 = 0 THEN half \o half ELSE half \o half \o c

\* requests: one that is valid, and ones with one field out of its range
ValidTweetRequest ==
  [topic |-> "AI news", style |-> "engaging", user_context |-> NULL, language |-> "en"]

TweetRequests ==
  {ValidTweetRequest,
   [ValidTweetRequest EXCEPT !.user_context = "founder"],
   [ValidTweetRequest EXCEPT !.topic = ""],
   [ValidTweetRequest EXCEPT !.topic = "  AI  "],
   [ValidTweetRequest EXCEPT !.topic = Repeat("a", ValidationRules_MAX_TOPIC_LENGTH + 1)],
   [ValidTweetRequest EXCEPT !.style = "sarcastic"],
   [ValidTweetRequest EXCEPT !.language = "xx", !.style = "sarcastic"],
   [ValidTweetRequest EXCEPT
      !.user_context = Repeat("c", ValidationRules_MAX_CONTENT_LENGTH + 1)]}

ValidThreadRequest ==
  [topic |-> "AI news", num_tweets |-> PyInt(3), style |-> "engaging", language |-> "en"]

ThreadRequests ==
  {[ValidThreadRequest EXCEPT !.num_tweets = n] :
     n \in {PyInt(1), PyInt(2), PyInt(3), PyInt(25), PyInt(26), PyFloat(3)}}
    \cup {[ValidThreadRequest EXCEPT !.topic = ""],
          [ValidThreadRequest EXCEPT !.language = "xx", !.num_tweets = PyInt(0)]}

ReplyRequests ==
  {[original_tweet |-> "Great launch", reply_style |-> s, user_context |-> NULL,
    language |-> "en"] : s \in {"helpful", "sarcastic"}}

\* what the content generator's call comes to: the result dictionary, or an
\* exception of the kinds OpenAIService and the tests' generators raise
GeneratorOutcomes ==
  {[kind |-> "returns",
    result |-> [success |-> TRUE, content |-> "Generated tweet content",
                prompt |-> "Test prompt", tokens_used |-> 50]],
   Raised("Exception", "OpenAI API error", <<>>),
   Raised("OpenAIAPIError", "Tweet generation failed: quota", <<>>)}

CommitOutcomes == {"ok", "Database error"}

ContentCalls ==
  \E user \in 1..1, generated \in GeneratorOutcomes, commit \in CommitOutcomes :
    \/ \E request \in TweetRequests :
         \/ ContentService_generate_tweet(request, user, generated, commit)
         \/ generate_and_log_tweet(request, user, generated, commit)
    \/ \E request \in ThreadRequests :
         \/ ContentService_generate_thread(request, user, generated, commit)
         \/ generate_and_log_thread(request, user, generated, commit)
    \/ \E request \in ReplyRequests :
         ContentService_generate_reply(request, user, generated, commit)
    \/ /\ generated.kind = "returns"
       /\ \E mode \in {ContentModes_NEW_TWEET, ContentModes_REPLY} :
            ContentService_log(user, generated.result.prompt, generated.result.content,
                               mode, commit)

\* content generation for a registered user
SpecContent == InitLibrary /\ [][create_user("alice", "pw1") \/ ContentCalls]_vars

\* the generator's result for a prompt
HistoryOutcome(prompt) ==
  [kind |-> "returns",
   result |-> [success |-> TRUE, content |-> "Generated tweet content",
               prompt |-> prompt, tokens_used |-> 50]]

\* the pages a client asks for
MaxLimit == 2
MaxOffset == 2

\* two users whose tweets (short prompt) and threads (long prompt) are logged
\* as time passes, and who page through their histories
SpecHistory ==
  InitLibrary
    /\ [][\/ Tick
          \/ create_user("alice", "pw1")
          \/ Len(users) = 1 /\ create_user("bob", "pw1")
          \/ \E user \in 1..2 :
               \/ generate_and_log_tweet(ValidTweetRequest, user,
                                         HistoryOutcome("Test prompt"), "ok")
               \/ generate_and_log_thread(ValidThreadRequest, user,
                                          HistoryOutcome(Repeat("p", 101)), "ok")
          \/ \E user \in 1..2, limit \in 0..MaxLimit, offset \in 0..MaxOffset,
                mode_filter \in {NULL, ContentModes_THREAD},
                query \in CommitOutcomes :
               get_user_content_history(user, limit, offset, mode_filter, query)]_vars

\* ----------------------------------------------------- content strategies
\* a check that is content with a key that is there, whatever it holds
required_present_as_key(kwargs, required_params) ==
  \A i \in 1..Len(required_params) : required_params[i] \in DOMAIN kwargs

\* all(kwargs.get(param) is not None for param in required_params)
required_present(kwargs, required_params) ==
  \A i \in 1..Len(required_params) : get(kwargs, required_params[i], NULL) # NULL

StrategyClasses ==
  {"TweetGenerationStrategy", "ThreadGenerationStrategy", "ReplyGenerationStrategy"}

\* required_params of each strategy class
required_params(strategy) ==
  IF strategy = "ReplyGenerationStrategy"
    THEN <<"original_tweet", "reply_style", "language">>
    ELSE <<"topic", "style", "language">>

\* validate_parameters of each strategy class
validate_parameters(strategy, kwargs) ==
  LET num_tweets == get(kwargs, "num_tweets", PyInt(3)) IN
  IF ~required_present(kwargs, required_params(strategy)) THEN FALSE
  ELSE IF strategy # "ThreadGenerationStrategy" THEN TRUE
  ELSE IF ~is_int(num_tweets) \/ num_tweets.value < 2 \/ num_tweets.value > 25 THEN FALSE
  ELSE TRUE

\* the call of the content generator each strategy class makes
generator_call(strategy, kwargs) ==
  IF strategy = "TweetGenerationStrategy"
    THEN [method |-> "generate_tweet",
          kwargs |-> [topic |-> get(kwargs, "topic", NULL),
                      style |-> get(kwargs, "style", NULL),
                      user_context |-> get(kwargs, "user_context", NULL),
                      language |-> get(kwargs, "language", NULL)]]
  ELSE IF strategy = "ThreadGenerationStrategy"
    THEN [method |-> "generate_thread",
          kwargs |-> [topic |-> get(kwargs, "topic", NULL),
                      num_tweets |-> get(kwargs, "num_tweets", PyInt(3)),
                      style |-> get(kwargs, "style", NULL),
                      language |-> get(kwargs, "language", NULL)]]
  ELSE [method |-> "generate_reply",
        kwargs |-> [original_tweet |-> get(kwargs, "original_tweet", NULL),
                    reply_style |-> get(kwargs, "reply_style", NULL),
                    user_context |-> get(kwargs, "user_context", NULL),
                    language |-> get(kwargs, "language", NULL)]]

\* the metadata of the ContentGenerationResult each strategy class returns
strategy_metadata(strategy, kwargs) ==
  LET original_tweet == get(kwargs, "original_tweet", NULL) IN
  IF strategy = "TweetGenerationStrategy"
    THEN [type |-> "tweet", style |-> get(kwargs, "style", NULL),
          language |-> get(kwargs, "language", NULL)]
  ELSE IF strategy = "ThreadGenerationStrategy"
    THEN [type |-> "thread", num_tweets |-> get(kwargs, "num_tweets", PyInt(3)),
          style |-> get(kwargs, "style", NULL), language |-> get(kwargs, "language", NULL)]
  ELSE [type |-> "reply", reply_style |-> get(kwargs, "reply_style", NULL),
        language |-> get(kwargs, "language", NULL),
        original_tweet_preview |->
          IF Len(original_tweet) > 50
            THEN SubSeq(original_tweet, 1, 50) \o "..." ELSE original_tweet]

\* the words of each class's ValueError
strategy_noun(strategy) ==
  IF strategy = "TweetGenerationStrategy" THEN "tweet"
  ELSE IF strategy = "ThreadGenerationStrategy" THEN "thread" ELSE "reply"

\* generate of each strategy class
strategy_generate(strategy, kwargs, generated) ==
  IF ~validate_parameters(strategy, kwargs)
    THEN [result |-> Raised("ValueError", "Invalid parameters for "
                              \o strategy_noun(strategy) \o " generation", <<>>),
          content_generator_calls |-> <<>>]
  ELSE IF generated.kind = "raises"
    THEN [result |-> generated,
          content_generator_calls |-> <<generator_call(strategy, kwargs)>>]
  ELSE [result |-> [kind |-> "returns",
                    value |-> ContentGenerationResult(
                                generated.result, strategy_metadata(strategy, kwargs))],
        content_generator_calls |-> <<generator_call(strategy, kwargs)>>]

\* ContentGenerationContext.get_supported_types
get_supported_types == strategies.keys

\* ContentGenerationContext.generate_content
generate_content(content_type, kwargs, generated) ==
  LET done ==
        IF ~in_list(content_type, strategies.keys)
          THEN [result |-> Raised("ValueError",
                                  "Unsupported content type: " \o content_type, <<>>),
                content_generator_calls |-> <<>>]
          ELSE strategy_generate(strategies.map[content_type], kwargs, generated)
  IN
  /\ resp' = [op |-> "generate_content", status |-> 0, content_type |-> content_type,
              kwargs |-> kwargs, generated |-> generated,
              content_generator_calls |-> done.content_generator_calls,
              result |-> done.result]
  /\ UNCHANGED <<settings, now, dbVars, frame>>

\* ContentGenerationContext.add_strategy: a dictionary assignment, which
\* keeps the place of a key already there and appends a new one
add_strategy(content_type, strategy) ==
  /\ strategies' =
       [keys |-> IF in_list(content_type, strategies.keys)
                   THEN strategies.keys ELSE Append(strategies.keys, content_type),
        map |-> [t \in DOMAIN strategies.map \cup {content_type} |->
                   IF t = content_type THEN strategy ELSE strategies.map[t]]]
  /\ resp' = [op |-> "add_strategy", status |-> 0, content_type |-> content_type,
              strategy |-> strategy]
  /\ UNCHANGED <<settings, now, dbVars, issued, calls, deleted, content_logs, results, publishing, published>>

\* f without the key k
Without(f, k) == [x \in DOMAIN f \ {k} |-> f[x]]

\* keyword arguments: complete ones for each strategy, and ones with a
\* required parameter left out or None, or with another thread size
TweetKwargs == [topic |-> "AI trends", style |-> "engaging", language |-> "en"]

ReplyKwargs ==
  [original_tweet |-> "This is an interesting tweet about AI, and about what it does here",
   reply_style |-> "helpful", language |-> "en"]

StrategyKwargs ==
  {TweetKwargs, ReplyKwargs, TweetKwargs @@ [user_context |-> "founder"]}
    \cup {Without(TweetKwargs, k) : k \in DOMAIN TweetKwargs}
    \cup {[TweetKwargs EXCEPT ![k] = NULL] : k \in DOMAIN TweetKwargs}
    \cup {Without(ReplyKwargs, k) : k \in DOMAIN ReplyKwargs}
    \cup {[ReplyKwargs EXCEPT ![k] = NULL] : k \in {"original_tweet", "reply_style"}}
    \cup {TweetKwargs @@ [num_tweets |-> n] :
            n \in {PyInt(1), PyInt(2), PyInt(25), PyInt(26), PyFloat(3), PyNone}}

ContentTypes == {"tweet", "thread", "reply", "custom", "unsupported_type"}

StrategyCalls ==
  \/ \E t \in ContentTypes, kwargs \in StrategyKwargs, generated \in GeneratorOutcomes :
       /\ generated.kind = "raises" => generated.exception.cls = "OpenAIAPIError"
       /\ generate_content(t, kwargs, generated)
  \/ \E t \in {"tweet", "custom"},
        s \in {"ThreadGenerationStrategy", "ReplyGenerationStrategy"} : add_strategy(t, s)

SpecStrategies == InitLibrary /\ [][StrategyCalls]_vars

\* ---------------------------------------------------------- thread size
\* value_objects.py ThreadSize(value): __post_init__ compares the value with
\* the two limits, whatever its type; text and None do not compare with an
\* int
ThreadSize(value) ==
  IF value.type \in {"str", "NoneType"}
    THEN Raised("TypeError", "'<' not supported", <<>>)
  ELSE IF value.value < ValidationRules_MIN_THREAD_SIZE
    THEN Raised("ValidationError", "Thread size must be at least "
                  \o str(ValidationRules_MIN_THREAD_SIZE), <<>>)
  ELSE IF value.value > ValidationRules_MAX_THREAD_SIZE
    THEN Raised("ValidationError", "Thread size cannot exceed "
                  \o str(ValidationRules_MAX_THREAD_SIZE), <<>>)
  ELSE [kind |-> "returns", value |-> value]

\* the values a thread size is given as
NumTweets ==
  {PyInt(n) : n \in (0 - MaxNumTweets)..MaxNumTweets}
    \cup {PyBool(TRUE), PyBool(FALSE), PyFloat(3), PyStr(5), PyNone}

\* one value put to the three checks: the value object, the validation
\* service on `request` with this num_tweets, and the thread strategy with
\* its required parameters present
thread_size_checks(request, num_tweets) ==
  /\ resp' = [op |-> "thread_size", status |-> 0, num_tweets |-> num_tweets,
              request |-> request,
              value_object |-> ThreadSize(num_tweets),
              validation |-> validate_thread_generation_request(
                               [request EXCEPT !.num_tweets = num_tweets]),
              strategy |-> validate_parameters(
                             "ThreadGenerationStrategy",
                             TweetKwargs @@ [num_tweets |-> num_tweets])]
  /\ UNCHANGED <<settings, now, dbVars, frame>>

SpecThreadSize ==
  InitLibrary
    /\ [][\E request \in {ValidThreadRequest, [ValidThreadRequest EXCEPT !.topic = ""]},
             n \in NumTweets : thread_size_checks(request, n)]_vars

\* ---------------------------------------------------- validation results
\* ValidationResult(): is_valid = True, errors = errors or []
ValidationResult_init == [is_valid |-> TRUE, errors |-> <<>>]

\* ValidationResult.add_error
ValidationResult_add_error(self, error) ==
  [is_valid |-> FALSE, errors |-> Append(self.errors, error)]

\* ValidationResult.merge with the flag of self left as it was
ValidationResult_merge_keeping_flag(self, other) ==
  IF ~other.is_valid
    THEN [self EXCEPT !.errors = self.errors \o other.errors]
    ELSE self

\* ValidationResult.merge: self after the call (which is what it returns)
ValidationResult_merge(self, other) ==
  IF ~other.is_valid
    THEN [is_valid |-> FALSE, errors |-> self.errors \o other.errors]
    ELSE self

ErrorTexts == {"first error", "second error"}

\* result = ValidationResult()
new_result ==
  /\ Len(results) < MaxResults
  /\ results' = Append(results, ValidationResult_init)
  /\ resp' = [op |-> "ValidationResult", status |-> 0, self |-> Len(results) + 1,
              before |-> results]
  /\ UNCHANGED <<settings, now, dbVars, issued, calls, deleted, content_logs, strategies, publishing, published>>

\* results[self].add_error(error)
add_error(self, error) ==
  /\ self \in DOMAIN results
  /\ Len(results[self].errors) < MaxErrors
  /\ results' = [results EXCEPT ![self] = ValidationResult_add_error(@, error)]
  /\ resp' = [op |-> "add_error", status |-> 0, self |-> self, error |-> error,
              before |-> results]
  /\ UNCHANGED <<settings, now, dbVars, issued, calls, deleted, content_logs, strategies, publishing, published>>

\* results[self].merge(results[other]); other may be self
merge(self, other) ==
  /\ self \in DOMAIN results
  /\ other \in DOMAIN results
  /\ Len(results[self].errors) + Len(results[other].errors) <= MaxErrors
  /\ results' = [results EXCEPT ![self] = ValidationResult_merge(@, results[other])]
  /\ resp' = [op |-> "merge", status |-> 0, self |-> self, other |-> other,
              before |-> results]
  /\ UNCHANGED <<settings, now, dbVars, issued, calls, deleted, content_logs, strategies, publishing, published>>

SpecValidationResult ==
  InitLibrary
    /\ [][\/ new_result
          \/ \E self \in 1..MaxResults, error \in ErrorTexts : add_error(self, error)
          \/ \E self \in 1..MaxResults, other \in 1..MaxResults : merge(self, other)]_vars

\* ------------------------------------------------- tweet content validation
TwitterConstants_MAX_HASHTAGS_RECOMMENDED == 3
TwitterConstants_MAX_MENTIONS_RECOMMENDED == 5

\* the characters \w matches, of those the texts here are made of
WordCharacters == "0123456789ABCDEFGHIJKLMNOPQRSTUVWXYZ_abcdefghijklmnopqrstuvwxyz"

\* the index after the run of \w characters that starts at i
word_end(text, i) ==
  LET stops == {j \in i..Len(text) : ~In(CharAt(text, j), WordCharacters)} IN
  IF stops = {} THEN Len(text) + 1 ELSE CHOOSE j \in stops : \A k \in stops : j <= k

\* the first index from i on where sigil + \w+ matches, 0 if there is none
search(sigil, text, i) ==
  LET starts == {j \in i..(Len(text) - 1) :
                   /\ CharAt(text, j) = sigil
                   /\ In(CharAt(text, j + 1), WordCharacters)} IN
  IF starts = {} THEN 0 ELSE CHOOSE j \in starts : \A k \in starts : j <= k

\* len(re.findall(sigil + r'\w+', text)), scanning from index i: the
\* leftmost match, as long as it can be, then on from its end
RECURSIVE findall_from(_, _, _)
findall_from(sigil, text, i) ==
  LET start == search(sigil, text, i) IN
  IF start = 0 THEN 0
  ELSE 1 + findall_from(sigil, text, word_end(text, start + 1))

\* ValidationService._contains_excessive_hashtags with the limit one higher
contains_excessive_hashtags_lenient(content) == findall_from("#", content, 1) > 4

\* ValidationService._contains_excessive_hashtags
contains_excessive_hashtags(content) == findall_from("#", content, 1) > 3

\* ValidationService._contains_excessive_mentions
contains_excessive_mentions(content) == findall_from("@", content, 1) > 5

\* ValidationService.validate_tweet_content
ValidationService_validate_tweet_content(content) ==
  LET errors ==
        (IF content = "" \/ strip(content) = ""
           THEN <<"Tweet content cannot be empty">> ELSE <<>>)
        \o (IF Len(content) > TwitterConstants_MAX_TWEET_LENGTH
              THEN <<"Tweet content exceeds " \o str(TwitterConstants_MAX_TWEET_LENGTH)
                       \o " characters">>
              ELSE <<>>)
        \o (IF Len(strip(content)) < ValidationRules_MIN_CONTENT_LENGTH
              THEN <<"Tweet content must be at least "
                       \o str(ValidationRules_MIN_CONTENT_LENGTH) \o " character">>
              ELSE <<>>)
        \o (IF contains_excessive_hashtags(content)
              THEN <<"Tweet contains too many hashtags (max 3 recommended)">> ELSE <<>>)
        \o (IF contains_excessive_mentions(content)
              THEN <<"Tweet contains too many mentions (max 5 recommended)">> ELSE <<>>)
  IN [is_valid |-> Len(errors) = 0,
      errors |-> errors,
      character_count |-> Len(content),
      remaining_characters |-> TwitterConstants_MAX_TWEET_LENGTH - Len(content)]

\* BaseValidator.validate_required_field on a str
validate_required_field(value, field_name) ==
  LET result == ValidationResult_init IN
  IF value = NULL THEN ValidationResult_add_error(result, field_name \o " is required")
  ELSE IF strip(value) = ""
    THEN ValidationResult_add_error(result, field_name \o " is required")
  ELSE result

\* TwitterContentValidator._count_hashtags
count_hashtags(content) == findall_from("#", content, 1)

\* TwitterContentValidator._count_mentions
count_mentions(content) == findall_from("@", content, 1)

\* TwitterContentValidator.validate_tweet_content
TwitterContentValidator_validate_tweet_content(content) ==
  LET required_result == validate_required_field(content, "Tweet content")
      merged == ValidationResult_merge(ValidationResult_init, required_result)
      long == IF Len(content) > TwitterConstants_MAX_TWEET_LENGTH
                THEN ValidationResult_add_error(
                       merged, "Tweet content exceeds "
                                 \o str(TwitterConstants_MAX_TWEET_LENGTH) \o " characters")
                ELSE merged
      short == IF Len(strip(content)) < ValidationRules_MIN_CONTENT_LENGTH
                 THEN ValidationResult_add_error(
                        long, "Tweet content must be at least "
                                \o str(ValidationRules_MIN_CONTENT_LENGTH) \o " character")
                 ELSE long
      tagged == IF count_hashtags(content) > TwitterConstants_MAX_HASHTAGS_RECOMMENDED
                  THEN ValidationResult_add_error(
                         short, "Tweet contains too many hashtags (max "
                                  \o str(TwitterConstants_MAX_HASHTAGS_RECOMMENDED)
                                  \o " recommended)")
                  ELSE short
      mentioned == IF count_mentions(content) > TwitterConstants_MAX_MENTIONS_RECOMMENDED
                     THEN ValidationResult_add_error(
                            tagged, "Tweet contains too many mentions (max "
                                      \o str(TwitterConstants_MAX_MENTIONS_RECOMMENDED)
                                      \o " recommended)")
                     ELSE tagged
  IN IF ~merged.is_valid THEN merged ELSE mentioned

\* the pieces tweet contents are put together from
Tokens == {"#a", "@b", "@c@d", " ", "x", "#"}

\* the content the last validation was asked about, and its number of pieces
Typed == IF resp.op = "validate_tweet_content" THEN resp.content ELSE ""
TypedTokens == IF resp.op = "validate_tweet_content" THEN resp.tokens ELSE 0

\* one content put to the service and to the validator
tweet_content_checks(content, tokens) ==
  /\ resp' = [op |-> "validate_tweet_content", status |-> 0,
              content |-> content, tokens |-> tokens,
              service |-> ValidationService_validate_tweet_content(content),
              validator |-> TwitterContentValidator_validate_tweet_content(content)]
  /\ UNCHANGED <<settings, now, dbVars, frame>>

\* the empty content
validate_empty == tweet_content_checks("", 0)

\* the content validated last, one piece longer
validate_longer(token) ==
  /\ TypedTokens < MaxTokens
  /\ tweet_content_checks(Typed \o token, TypedTokens + 1)

\* the content validated last, filled up to `length` characters
validate_padded(c, length) ==
  /\ TypedTokens <= MaxTokens - 2
  /\ Len(Typed) <= length
  /\ tweet_content_checks(Typed \o Repeat(c, length - Len(Typed)), MaxTokens)

SpecTweetContent ==
  InitLibrary
    /\ [][\/ validate_empty
          \/ \E token \in Tokens : validate_longer(token)
          \/ \E c \in {"a", " "},
                length \in {TwitterConstants_MAX_TWEET_LENGTH,
                            TwitterConstants_MAX_TWEET_LENGTH + 1} :
               validate_padded(c, length)]_vars

\* ------------------------------------------------------------------ claims

\* C1: the OAuth 2.0 callback rejects a request whose state is not the state
\* the init call issued with the request's code_verifier: no token exchange
\* is performed for it, no user is created or updated, and no bearer token
\* is returned.
StateMismatch(request) ==
  /\ request.issued_state # NULL
  /\ request.state # request.issued_state

C1_MismatchedStateRejected ==
  /\ \A slot \in Slots :
       calls[slot].pc # "idle" => ~StateMismatch(calls[slot].request)
  /\ (resp.op = "twitter_oauth2_callback" /\ StateMismatch(resp.request))
       => /\ resp.status # 200
          /\ resp.user = 0
          /\ resp.access_token = AbsentToken

\* C2: update_scheduled_post and delete_scheduled_post on a post the caller
\* owns whose status is not PENDING answer HTTP 400, leave the post's
\* content, scheduled_time, status and tweet_id as they were, and leave the
\* row in place.
C2_Request(i) ==
  /\ resp'.op \in {"update_scheduled_post", "delete_scheduled_post"}
  /\ resp'.id = i
  /\ i \in DOMAIN posts
  /\ resp'.user = posts[i].user_id
  /\ posts[i].status # PENDING

C2_NonPendingImmutable ==
  [][\A i \in PostIds :
       C2_Request(i) => /\ resp'.status = 400
                        /\ i \in DOMAIN posts'
                        /\ posts'[i] = posts[i]]_vars

C2_Witness ==
  /\ resp.op = "update_scheduled_post"
  /\ resp.status = 400
  /\ resp.detail = "Can only update pending posts"
  /\ resp.id \in DOMAIN posts
  /\ posts[resp.id].status = POSTED
  /\ posts[resp.id].user_id = resp.user

\* C3: create_scheduled_post with scheduled_time <= now is rejected with
\* HTTP 400 and creates no row; every row it does create starts PENDING
\* with a scheduled_time strictly after the time of creation.
C3_CreateNeedsFutureTime ==
  [][(resp'.op = "create_scheduled_post" /\ resp'.user # 0 /\ resp' # resp)
       => IF resp'.detail.scheduled_time.t <= resp'.detail.at
            THEN resp'.status = 400 /\ posts' = posts
            ELSE resp'.status = 201
                   => /\ resp'.id \in DOMAIN posts' \ DOMAIN posts
                      /\ posts'[resp'.id].status = PENDING
                      /\ posts'[resp'.id].scheduled_time.t > resp'.detail.at]_vars

\* C4: after any sequence of password logins, OAuth 1.0a connects,
\* disconnects and interleaved callbacks, a callback whose token exchange and
\* profile fetch succeed for platform user id T updates the existing user
\* whose twitter_user_id is T if there is one, otherwise creates exactly one
\* new user, and returns a bearer token for that user; no two users ever
\* share a twitter_user_id.
C4_Completes ==
  /\ resp'.op = "twitter_oauth2_callback"
  /\ resp'.tid # NULL
  /\ \E slot \in Slots : calls[slot].pc = "profile" /\ calls'[slot].pc = "idle"

C4_CallbackUpserts ==
  [][/\ \A i, j \in 1..Len(users') :
          (i # j /\ users'[i].twitter_user_id # NULL)
            => users'[i].twitter_user_id # users'[j].twitter_user_id
     /\ C4_Completes =>
          LET existing == {i \in 1..Len(users) : users[i].twitter_user_id = resp'.tid}
          IN /\ resp'.status = 200
             /\ IF existing # {}
                  THEN Len(users') = Len(users) /\ resp'.user \in existing
                  ELSE Len(users') = Len(users) + 1 /\ resp'.user = Len(users')
             /\ users'[resp'.user].twitter_user_id = resp'.tid
             /\ resp'.access_token =
                  create_access_token(users'[resp'.user].username,
                                      ACCESS_TOKEN_EXPIRE_MINUTES)]_vars

\* C5: login answers 200 with a token for the username exactly when the
\* username exists and the password is the one its stored hash was made
\* from; otherwise it answers 401 and returns no token.
C5_Verifies(username, password) ==
  \E i \in 1..Len(users) :
    /\ users[i].username = username
    /\ users[i].hashed_password = [alg |-> "bcrypt", of |-> password]

C5_LoginNeedsPassword ==
  resp.op = "login" =>
    IF C5_Verifies(resp.username, resp.password)
      THEN /\ resp.status = 200
           /\ resp.response.access_token.sub = resp.username
           /\ resp.response.access_token.key = SECRET_KEY
      ELSE /\ resp.status = 401
           /\ resp.response.access_token = AbsentToken

C5_Witness ==
  /\ resp.op = "login"
  /\ resp.status = 401
  /\ get_user(users, resp.username) # 0
  /\ users[get_user(users, resp.username)].hashed_password # NoHash

\* C6: the login response (status, detail, headers) is the same for an
\* unknown username as for an existing username with a wrong password.
C6_SameFailure ==
  \A unknown, known \in Usernames \cup {"carol"}, p \in Passwords :
    (/\ get_user(users, unknown) = 0
     /\ get_user(users, known) # 0
     /\ ~C5_Verifies(known, p))
      => LoginResponse(unknown, p) = LoginResponse(known, p)

C6_Witness ==
  /\ resp.op = "login"
  /\ resp.status = 401
  /\ get_user(users, resp.username) # 0
  /\ \E unknown \in Usernames \cup {"carol"} : get_user(users, unknown) = 0

\* C7: a tweet or scheduled-post operation takes effect only for a request
\* whose bearer token decodes with the server's secret to a subject naming an
\* existing user; a token that is absent, malformed, forged, expired,
\* without a subject or naming no user gets 401 and changes no table.
ContentOps ==
  {"create_tweet", "read_tweets", "read_tweet", "update_tweet", "delete_tweet",
   "create_scheduled_post", "get_scheduled_posts", "get_scheduled_post",
   "update_scheduled_post", "delete_scheduled_post", "post_now"}

C7_Valid(token) ==
  /\ token.key = SECRET_KEY
  /\ token.exp >= now
  /\ token.sub # NULL
  /\ \E i \in 1..Len(users) : users[i].username = token.sub

C7_TokenGuardsContent ==
  [][resp'.op \in ContentOps =>
       IF C7_Valid(resp'.token)
         THEN /\ resp'.status # 401
              /\ resp'.user \in 1..Len(users)
              /\ users[resp'.user].username = resp'.token.sub
         ELSE /\ resp'.status = 401
              /\ UNCHANGED dbVars]_vars

C7_Witness ==
  /\ resp.op = "delete_tweet"
  /\ resp.status = 401
  /\ resp.token.key = ForgedKey
  /\ resp.token.sub = "alice"
  /\ get_user(users, "alice") # 0
  /\ DOMAIN tweets # {}

\* C8: after delete_tweet succeeds for tweet id i, every later read_tweet,
\* update_tweet and delete_tweet of i answers 404, whatever tweet operations
\* follow.
C8_OnId(i) ==
  /\ resp'.op \in {"read_tweet", "update_tweet", "delete_tweet"}
  /\ resp'.user # 0
  /\ resp'.id = i

C8_DeletedStays404 ==
  [][\A i \in deleted : C8_OnId(i) => resp'.status = 404]_vars

\* C8 as amended: ... answers 404 for as long as no later create_tweet has
\* been given the id i again; on an engine that draws ids from a sequence no
\* create_tweet ever is, and a successful delete_tweet removes the row.
C8_DeletedStays404UntilReissued ==
  [][/\ \A i \in deleted \ DOMAIN tweets : C8_OnId(i) => resp'.status = 404
     /\ settings.DATABASE_URL = "postgresql" => deleted' \cap DOMAIN tweets' = {}
     /\ (resp'.op = "delete_tweet" /\ resp'.status = 200)
          => resp'.id \notin DOMAIN tweets']_vars

C8_Witness ==
  /\ resp.op = "read_tweet"
  /\ resp.user # 0
  /\ resp.id \in deleted
  /\ resp.status = 404

FirstAt(text, c, from) ==
  LET at == {i \in from..Len(text) : CharAt(text, i) = c}
  IN IF at = {} THEN Len(text) + 1 ELSE CHOOSE i \in at : \A j \in at : i <= j

\* urllib.parse.unquote_plus, as the authorization server reads a value
RECURSIVE unquote_from(_, _)
unquote_from(text, i) ==
  IF i > Len(text) THEN ""
  ELSE IF CharAt(text, i) = "+" THEN " " \o unquote_from(text, i + 1)
  ELSE IF CharAt(text, i) = "%"
    THEN chr(16 * (FirstAt(HexDigits, CharAt(text, i + 1), 1) - 1)
               + (FirstAt(HexDigits, CharAt(text, i + 2), 1) - 1))
           \o unquote_from(text, i + 3)
  ELSE CharAt(text, i) \o unquote_from(text, i + 1)

\* the value of parameter name in the query string of url
QueryParam(url, name) ==
  LET start == FirstAt(url, "?", 1)
      seps == {start, Len(url) + 1} \cup {i \in start..Len(url) : CharAt(url, i) = "&"}
      field == CHOOSE a \in seps \ {Len(url) + 1} :
                 SubSeq(url, a + 1, FirstAt(url, "=", a + 1) - 1) = quote_plus(name)
      end == CHOOSE b \in seps : b > field /\ \A c \in seps : c > field => b <= c
  IN unquote_from(SubSeq(url, FirstAt(url, "=", field + 1) + 1, end - 1), 1)

\* base64.urlsafe_b64decode of text without its padding
urlsafe_b64decode(text) ==
  LET v(j) == FirstAt(B64Alphabet, CharAt(text, j), 1) - 1
  IN [k \in 1..((6 * Len(text)) \div 8) |->
        LET j == ((8 * (k - 1)) \div 6) + 1
            o == (8 * (k - 1)) % 6
        IN IF o = 0 THEN v(j) * 4 + v(j + 1) \div 16
           ELSE IF o = 2 THEN (v(j) % 16) * 16 + v(j + 1) \div 4
           ELSE (v(j) % 4) * 64 + v(j + 1)]

\* the challenges of the verifiers the model draws
DrawnChallenges ==
  <<generate_code_challenge(generate_code_verifier(1)),
    generate_code_challenge(generate_code_verifier(2)),
    generate_code_challenge(generate_code_verifier(3))>>

ChallengeOf(code_verifier) ==
  DrawnChallenges[CHOOSE r \in RandomSeeds : generate_code_verifier(r) = code_verifier]

\* the function, against RFC 7636 appendix B and against the digest
C10_Function ==
  /\ generate_code_verifier(1) = "dBjftJeZ4CVP-mB92K27uhbUJU1p1r_wW1gFWFOEjXk"
  /\ DrawnChallenges[1] = "E9Melhoa2OwvFrEMTJguCHaoeK1t8URWbuGJSstw-cM"
  /\ \A r \in RandomSeeds :
       /\ ~In("=", DrawnChallenges[r])
       /\ \A i \in 1..Len(DrawnChallenges[r]) :
            In(CharAt(DrawnChallenges[r], i), B64Alphabet)
       /\ urlsafe_b64decode(DrawnChallenges[r])
            = sha256(encode_utf8(generate_code_verifier(r)))

C10_ChallengeMatchesVerifier ==
  /\ C10_Function
  /\ (resp.op = "twitter_oauth2_init" /\ resp.status = 200) =>
       LET url == resp.body.authorization_url IN
       /\ QueryParam(url, "code_challenge") = ChallengeOf(resp.body.code_verifier)
       /\ QueryParam(url, "code_challenge_method") = "S256"
       /\ QueryParam(url, "state") = resp.body.state
       /\ resp.body \in issued

C10_Witness ==
  /\ resp.op = "twitter_oauth2_init"
  /\ resp.status = 200
  /\ resp.body.code_verifier = "dBjftJeZ4CVP-mB92K27uhbUJU1p1r_wW1gFWFOEjXk"
  /\ QueryParam(resp.body.authorization_url, "code_challenge")
       = "E9Melhoa2OwvFrEMTJguCHaoeK1t8URWbuGJSstw-cM"
  /\ QueryParam(resp.body.authorization_url, "redirect_uri")
       = "http://localhost:3000/auth/twitter/callback"

\* C11: post_now never retries. (original) On a PENDING post it makes
\* exactly one external publish attempt; if the attempt fails the request
\* fails with HTTP 500 and the post becomes FAILED with tweet_id unset; every
\* later post_now on that post by its owner is rejected with HTTP 400 without
\* any external call, the post staying FAILED as it is.
C11_Step(i) ==
  /\ resp' # resp
  /\ resp'.op = "post_now"
  /\ resp'.id = i
  /\ i \in DOMAIN posts
  /\ resp'.user = posts[i].user_id

C11_HasCredentials(user) ==
  \/ /\ users[user].twitter_access_token # NoTwitterToken
     /\ users[user].twitter_refresh_token # NoTwitterToken
  \/ settings.TWITTER_API_KEY # ""

C11_FailureIsFinal(i) ==
  /\ (C11_Step(i) /\ posts[i].status = PENDING /\ ~resp'.detail.success)
       => /\ resp'.status = 500
          /\ posts'[i].status = FAILED
          /\ posts'[i].tweet_id = NULL
  /\ (C11_Step(i) /\ posts[i].status = FAILED)
       => /\ resp'.status = 400
          /\ resp'.detail = "Post is not pending"
          /\ posts' = posts
  /\ (i \in DOMAIN posts /\ posts[i].status = FAILED)
       => (i \in DOMAIN posts' /\ posts'[i] = posts[i])

C12_Category(e) ==
  IF isinstance(e, "ValidationError") THEN "ValidationError"
  ELSE IF isinstance(e, "ContentGenerationError") THEN "ContentGenerationError"
  ELSE IF isinstance(e, "OpenAIAPIError") THEN "OpenAIAPIError"
  ELSE IF isinstance(e, "DatabaseError") THEN "DatabaseError"
  ELSE "other"

C12_ErrorsMapped ==
  resp.op = "handle_service_errors"
    => IF resp.outcome.kind = "returns"
         THEN resp.result = resp.outcome
         ELSE LET e == resp.outcome.exception
                  r == resp.result
                  category == C12_Category(e)
              IN /\ r.kind = "raises"
                 /\ r.cls = "HTTPException"
                 /\ category = "ValidationError"
                      => (r.status_code = 400 /\ r.detail = e.message)
                 /\ category = "ContentGenerationError" => r.status_code = 500
                 /\ category = "OpenAIAPIError" => r.status_code = 503
                 /\ category = "DatabaseError" => r.status_code = 500
                 /\ category = "other"
                      => /\ r.status_code = 500
                         /\ r.detail = "Internal server error"
                         /\ r.detail # e.message

C12_Witness ==
  /\ resp.op = "handle_service_errors"
  /\ resp.outcome.kind = "raises"
  /\ resp.outcome.exception = [cls |-> "ValueError", message |-> "key sk-123 rejected"]
  /\ resp.result.status_code = 500
  /\ resp.result.detail = "Internal server error"

\* C13: in ContentService.generate_tweet / generate_thread and in
\* ContentOrchestrationService.generate_and_log_tweet / generate_and_log_thread
\* the steps run in the order validate, generate, log: when the validation
\* reports is_valid = false the call raises ContentGenerationError('Invalid
\* input data') carrying the validation errors, the content generator is
\* never invoked and no content-log row is added or committed; the log is
\* written only after the generator was called.
C13_Validated ==
  {"ContentService.generate_tweet", "ContentService.generate_thread",
   "ContentOrchestrationService.generate_and_log_tweet",
   "ContentOrchestrationService.generate_and_log_thread"}

C13_Validation(request) ==
  IF "num_tweets" \in DOMAIN request
    THEN validate_thread_generation_request(request)
    ELSE validate_content_generation_request(request)

C13_ValidateGenerateLog ==
  resp.op \in C13_Validated
    => /\ ~C13_Validation(resp.request).is_valid
            => /\ resp.result.kind = "raises"
               /\ resp.result.exception.cls = "ContentGenerationError"
               /\ resp.result.exception.message = "Invalid input data"
               /\ resp.result.exception.details.errors
                    = C13_Validation(resp.request).errors
               /\ resp.content_generator_calls = <<>>
               /\ resp.db_calls = <<>>
               /\ content_logs = resp.before
       /\ resp.content_generator_calls # <<>> => C13_Validation(resp.request).is_valid
       /\ resp.db_calls # <<>> => Len(resp.content_generator_calls) = 1

C13_Witness ==
  /\ resp.op = "ContentOrchestrationService.generate_and_log_thread"
  /\ resp.request.num_tweets = PyInt(26)
  /\ resp.generated.kind = "returns"
  /\ resp.commit = "ok"
  /\ resp.result.kind = "raises"
  /\ resp.result.exception.details.errors = <<"Thread cannot exceed 25 tweets">>
  /\ resp.content_generator_calls = <<>>
  /\ Len(content_logs) = 1

\* C14: a successful ContentService.generate_tweet / generate_thread /
\* generate_reply call invokes the content generator exactly once with
\* exactly the caller's arguments, adds and commits exactly one content-log
\* row (the requesting user's id, the generator's prompt and content, mode
\* new_tweet / thread / reply respectively) and returns the generator's
\* result unchanged.
C14_Method(op) ==
  IF op = "ContentService.generate_tweet"
    THEN [name |-> "generate_tweet", mode |-> "new_tweet"]
  ELSE IF op = "ContentService.generate_thread"
    THEN [name |-> "generate_thread", mode |-> "thread"]
  ELSE [name |-> "generate_reply", mode |-> "reply"]

C14_SuccessLogsOnce ==
  (/\ resp.op \in {"ContentService.generate_tweet", "ContentService.generate_thread",
                   "ContentService.generate_reply"}
   /\ resp.result.kind = "returns")
    => /\ resp.content_generator_calls
            = <<[method |-> C14_Method(resp.op).name, kwargs |-> resp.request]>>
       /\ resp.db_calls = <<"add", "commit">>
       /\ content_logs
            = Append(resp.before,
                     [user_id |-> resp.user, prompt |-> resp.generated.result.prompt,
                      generated_text |-> resp.generated.result.content,
                      mode |-> C14_Method(resp.op).mode,
                      created_at |-> now])
       /\ resp.generated.kind = "returns"
       /\ resp.result.value = resp.generated.result

C14_Witness ==
  /\ resp.op = "ContentService.generate_thread"
  /\ resp.result.kind = "returns"
  /\ resp.request.num_tweets = PyInt(25)
  /\ Len(resp.before) = 1
  /\ Len(content_logs) = 2
  /\ content_logs[2].mode = "thread"
  /\ content_logs[1].mode = "reply"

\* text contains part
Contains(text, part) ==
  \E i \in 1..(Len(text) - Len(part) + 1) : SubSeq(text, i, i + Len(part) - 1) = part

\* C15: when the commit fails inside ContentService._log_content_generation
\* the session is rolled back exactly once, a DatabaseError is raised and no
\* content-log row is persisted; when the content generator raises inside
\* generate_tweet the call raises ContentGenerationError whose message
\* contains 'Tweet generation failed' and the original error text, and no log
\* row is written.
C15_Count(calls_made, name) == Cardinality({i \in DOMAIN calls_made : calls_made[i] = name})

C15_FailuresLeaveNoRow ==
  /\ (resp.op = "ContentService._log_content_generation" /\ resp.commit # "ok")
       => /\ C15_Count(resp.db_calls, "rollback") = 1
          /\ resp.result.kind = "raises"
          /\ resp.result.exception.cls = "DatabaseError"
          /\ content_logs = resp.before
  /\ (/\ resp.op = "ContentService.generate_tweet"
      /\ resp.content_generator_calls # <<>>
      /\ resp.generated.kind = "raises")
       => /\ resp.result.kind = "raises"
          /\ resp.result.exception.cls = "ContentGenerationError"
          /\ Contains(resp.result.exception.message, "Tweet generation failed")
          /\ Contains(resp.result.exception.message, resp.generated.exception.message)
          /\ resp.db_calls = <<>>
          /\ content_logs = resp.before

C15_Witness ==
  /\ resp.op = "ContentService._log_content_generation"
  /\ resp.commit = "Database error"
  /\ resp.db_calls = <<"add", "commit", "rollback">>
  /\ resp.result.kind = "raises"
  /\ resp.result.exception.message = "Failed to log content generation: Database error"
  /\ Len(content_logs) = 1

\* C16: ContentGenerationContext.generate_content raises ValueError without
\* invoking the content generator when the content type is not a registered
\* strategy; each strategy's generate raises ValueError before invoking the
\* generator when a required parameter is missing (tweet / thread: topic,
\* style, language; reply: original_tweet, reply_style, language); after
\* add_strategy(t, s) the type t is supported and generate_content(t)
\* dispatches to s.
C16_Missing(kwargs, params) ==
  \E p \in params : p \notin DOMAIN kwargs \/ kwargs[p] = NULL

C16_Required(strategy) ==
  IF strategy = "ReplyGenerationStrategy"
    THEN {"original_tweet", "reply_style", "language"}
    ELSE {"topic", "style", "language"}

C16_IsValueError(r) ==
  /\ r.result.kind = "raises"
  /\ r.result.exception.cls = "ValueError"
  /\ r.content_generator_calls = <<>>

C16_StrategiesGuardGenerator ==
  /\ resp.op = "generate_content"
       => IF ~in_list(resp.content_type, get_supported_types)
            THEN C16_IsValueError(resp)
            ELSE LET s == strategies.map[resp.content_type] IN
                 /\ C16_Missing(resp.kwargs, C16_Required(s)) => C16_IsValueError(resp)
                 /\ resp.content_generator_calls # <<>>
                      => /\ Len(resp.content_generator_calls) = 1
                         /\ resp.content_generator_calls[1].method
                              = "generate_" \o strategy_noun(s)
                 /\ resp.result.kind = "returns"
                      => resp.result.value.metadata.type = strategy_noun(s)
  /\ resp.op = "add_strategy"
       => /\ in_list(resp.content_type, get_supported_types)
          /\ strategies.map[resp.content_type] = resp.strategy

C16_Witness ==
  /\ resp.op = "generate_content"
  /\ resp.content_type = "custom"
  /\ strategies.keys = <<"tweet", "thread", "reply", "custom">>
  /\ strategies.map["custom"] = "ReplyGenerationStrategy"
  /\ "reply_style" \notin DOMAIN resp.kwargs
  /\ "original_tweet" \in DOMAIN resp.kwargs
  /\ resp.generated.kind = "returns"
  /\ resp.result.kind = "raises"
  /\ resp.result.exception.message = "Invalid parameters for reply generation"

\* C17: the three thread-size checks accept exactly the same values: for
\* every integer n, ThreadSize(n) constructs without error, the validation
\* service reports no thread-size error for num_tweets = n, and the thread
\* strategy's validate_parameters (required parameters present) returns
\* true, if and only if 2 <= n <= 25; a num_tweets that is not an integer is
\* rejected by the validation service and by the strategy.
C17_SizeErrors ==
  {"Number of tweets must be an integer", "Thread must contain at least 2 tweets",
   "Thread cannot exceed 25 tweets"}

C17_NoSizeError(validation) ==
  \A i \in DOMAIN validation.errors : validation.errors[i] \notin C17_SizeErrors

C17_ThreadSizeChecksAgree ==
  resp.op = "thread_size"
    => LET n == resp.num_tweets
           in_range == 2 <= n.value /\ n.value <= 25
       IN IF n.type \in {"int", "bool"}
            THEN /\ (resp.value_object.kind = "returns") <=> in_range
                 /\ C17_NoSizeError(resp.validation) <=> in_range
                 /\ resp.strategy <=> in_range
            ELSE /\ ~C17_NoSizeError(resp.validation)
                 /\ ~resp.validation.is_valid
                 /\ ~resp.strategy

C17_Witness ==
  /\ resp.op = "thread_size"
  /\ resp.num_tweets = PyInt(26)
  /\ resp.request = ValidThreadRequest
  /\ resp.value_object.kind = "raises"
  /\ resp.value_object.exception.message = "Thread size cannot exceed 25"
  /\ resp.validation.errors = <<"Thread cannot exceed 25 tweets">>
  /\ ~resp.strategy

\* C18: for every string content, ValidationService.validate_tweet_content
\* returns is_valid = true exactly when the content is non-blank, has at
\* most 280 characters, at most 3 hashtags and at most 5 mentions; is_valid
\* is true if and only if the errors list is empty; character_count is
\* len(content), and character_count + remaining_characters = 280.
C18_Blank(content) == \A i \in 1..Len(content) : isspace(CharAt(content, i))

\* the places where the sigil is followed by a letter, a digit or "_"
C18_Tags(sigil, content) ==
  Cardinality({i \in 1..(Len(content) - 1) :
                 /\ CharAt(content, i) = sigil
                 /\ \E j \in 1..Len(WordCharacters) :
                      CharAt(WordCharacters, j) = CharAt(content, i + 1)})

C18_TweetContentValidity ==
  resp.op = "validate_tweet_content" =>
    /\ resp.service.is_valid
         <=> /\ ~C18_Blank(resp.content)
             /\ Len(resp.content) <= 280
             /\ C18_Tags("#", resp.content) <= 3
             /\ C18_Tags("@", resp.content) <= 5
    /\ resp.service.is_valid <=> resp.service.errors = <<>>
    /\ resp.service.character_count = Len(resp.content)
    /\ resp.service.character_count + resp.service.remaining_characters = 280

\* a content of exactly 280 characters with two hashtags, found valid with
\* nothing remaining
C18_Witness ==
  /\ resp.op = "validate_tweet_content"
  /\ resp.service.is_valid
  /\ Len(resp.content) = 280
  /\ C18_Tags("#", resp.content) = 2
  /\ resp.service.remaining_characters = 0

\* C19: ValidationService.validate_tweet_content on empty content returns
\* is_valid = false with the error 'Tweet content is required' among its
\* errors, the same required-field error TwitterContentValidator
\* .validate_tweet_content reports for empty content.
C19_EmptyIsRequired ==
  (resp.op = "validate_tweet_content" /\ resp.content = "") =>
    /\ ~resp.service.is_valid
    /\ in_list("Tweet content is required", resp.service.errors)
    /\ in_list("Tweet content is required", resp.validator.errors)

\* C20: a ValidationResult created with defaults is valid with no errors,
\* and after any sequence of add_error and merge calls, on results built
\* the same way, is_valid is true if and only if the errors list is empty;
\* add_error always makes the result invalid, merge with a valid result
\* changes nothing, and merge with an invalid result appends all of that
\* result's errors in order.
C20_ValidIffNoErrors ==
  /\ \A i \in DOMAIN results : results[i].is_valid <=> results[i].errors = <<>>
  /\ resp.op = "ValidationResult" =>
       /\ results[resp.self] = [is_valid |-> TRUE, errors |-> <<>>]
       /\ \A i \in DOMAIN resp.before : results[i] = resp.before[i]
  /\ resp.op = "add_error" =>
       /\ ~results[resp.self].is_valid
       /\ results[resp.self].errors = Append(resp.before[resp.self].errors, resp.error)
       /\ \A i \in DOMAIN results : i # resp.self => results[i] = resp.before[i]
  /\ resp.op = "merge" =>
       /\ resp.before[resp.other].is_valid => results = resp.before
       /\ ~resp.before[resp.other].is_valid =>
            /\ ~results[resp.self].is_valid
            /\ results[resp.self].errors
                 = resp.before[resp.self].errors \o resp.before[resp.other].errors
       /\ \A i \in DOMAIN results : i # resp.self => results[i] = resp.before[i]

\* a valid result has just taken over the two errors of an invalid one, or
\* an invalid one those of another behind its own
C20_Witness ==
  /\ resp.op = "merge"
  /\ resp.self # resp.other
  /\ ~resp.before[resp.other].is_valid
  /\ Len(results[resp.self].errors) = 2
  /\ results[resp.self].errors[1] # results[resp.self].errors[2]
  /\ Len(resp.before[resp.self].errors) < 2


\* C21: update_scheduled_post is all-or-nothing with respect to the
\* future-time check: a request on a PENDING post that supplies both a new
\* content and a scheduled_time that is not in the future is rejected with
\* HTTP 400 and leaves the persisted post completely unchanged; a request
\* that omits scheduled_time changes only the fields supplied and never
\* status or tweet_id.
C21_Updates ==
  {u \in [has_content : BOOLEAN, content : {NULL, "world"},
          has_scheduled_time : BOOLEAN, scheduled_time : {NoTime} \cup RequestTimes] :
     WellFormedPostUpdate(u)}

\* the request is served on a pending post of the caller's
C21_Served(token, post_id, post_update) ==
  /\ get_current_user(token) # 0
  /\ OwnPost(post_id, get_current_user(token))
  /\ IsPending(posts[post_id])
  /\ update_scheduled_post(token, post_id, post_update)

\* a new content together with a time that is not in the future
C21_Late(post_update) ==
  /\ post_update.has_content
  /\ post_update.content # NULL
  /\ post_update.has_scheduled_time
  /\ post_update.scheduled_time # NoTime
  /\ post_update.scheduled_time.t <= now

\* only the fields supplied change when scheduled_time is omitted
C21_OnlySupplied(post_id, post_update) ==
  /\ DOMAIN posts' = DOMAIN posts
  /\ \A i \in DOMAIN posts : i # post_id => posts'[i] = posts[i]
  /\ posts'[post_id].status = posts[post_id].status
  /\ posts'[post_id].tweet_id = posts[post_id].tweet_id
  /\ posts'[post_id].scheduled_time = posts[post_id].scheduled_time
  /\ posts'[post_id].user_id = posts[post_id].user_id
  /\ posts'[post_id].content # posts[post_id].content
       => post_update.has_content /\ posts'[post_id].content = post_update.content

C21_AllOrNothing ==
  [][\A token \in SessionTokens, post_id \in PostIds, post_update \in C21_Updates :
       C21_Served(token, post_id, post_update)
         => /\ C21_Late(post_update) => resp'.status = 400 /\ posts' = posts
            /\ ~post_update.has_scheduled_time
                 => C21_OnlySupplied(post_id, post_update)]_vars

\* the same with the status of the rejection left open
C21_NothingStored ==
  [][\A token \in SessionTokens, post_id \in PostIds, post_update \in C21_Updates :
       C21_Served(token, post_id, post_update)
         => /\ C21_Late(post_update) => resp'.status \in {400, 500} /\ posts' = posts
            /\ (C21_Late(post_update) /\ ~post_update.scheduled_time.aware)
                 => resp'.status = 400
            /\ ~post_update.has_scheduled_time
                 => C21_OnlySupplied(post_id, post_update)]_vars


\* C22: in the OAuth 2.0 callback the external steps are sequenced token
\* exchange, profile fetch, user upsert, bearer-token issue, and a failed
\* external step fails the request with no local effect: when the token
\* exchange or the profile fetch returns a non-200 response the callback
\* returns HTTP 400, the profile fetch is not attempted after a failed
\* exchange, no user row is created or modified, and no bearer token is
\* issued.
C22_Failed(slot) ==
  /\ resp'.op = "twitter_oauth2_callback"
  /\ resp'.status = 400
  /\ resp'.access_token = AbsentToken
  /\ calls'[slot].pc = "idle"
  /\ users' = users

C22_FailedStepFailsRequest ==
  [][\A slot \in Slots :
       /\ \A tid \in TwitterIds, has_refresh \in BOOLEAN :
            oauth2_callback_token_response(slot, 400, tid, has_refresh)
              => C22_Failed(slot)
       /\ oauth2_callback_user_response(slot, 401) => C22_Failed(slot)
       \* the order of the steps
       /\ calls'[slot].pc = "token" => calls[slot].pc \in {"idle", "token"}
       /\ calls'[slot].pc = "profile" => calls[slot].pc \in {"token", "profile"}
       /\ (calls[slot].pc = "token" /\ calls'[slot].pc = "profile")
            => users' = users /\ resp' = resp
       /\ (resp' # resp /\ resp'.op = "twitter_oauth2_callback" /\ resp'.status = 200)
            => /\ \E other \in Slots :
                    calls[other].pc = "profile" /\ calls'[other].pc = "idle"
               /\ resp'.user \in 1..Len(users')
               /\ users'[resp'.user].twitter_user_id = resp'.tid
               /\ resp'.access_token.sub = users'[resp'.user].username]_vars

\* a profile fetch has failed after a user had signed in through the callback
C22_Witness ==
  /\ resp.op = "twitter_oauth2_callback"
  /\ resp.status = 400
  /\ resp.detail = "Failed to get user info"
  /\ \E i \in 1..Len(users) : users[i].twitter_access_token # NoTwitterToken


C25_TweetOps == {"read_tweet", "update_tweet", "delete_tweet"}
C25_PostOps ==
  {"get_scheduled_post", "update_scheduled_post", "delete_scheduled_post", "post_now"}

C25_Isolation ==
  [][(resp' # resp /\ resp'.op \in C25_TweetOps \cup C25_PostOps
                                 \cup {"read_tweets", "get_scheduled_posts"}
        /\ resp'.user # 0)
       => /\ (resp'.op \in C25_TweetOps /\ resp'.id \in DOMAIN tweets
                /\ tweets[resp'.id].user_id # resp'.user)
               => resp'.status = 404
          /\ (resp'.op \in C25_PostOps /\ resp'.id \in DOMAIN posts
                /\ posts[resp'.id].user_id # resp'.user)
               => resp'.status = 404
          /\ \A i \in DOMAIN tweets :
               tweets[i].user_id # resp'.user
                 => i \in DOMAIN tweets' /\ tweets'[i] = tweets[i]
          /\ \A i \in DOMAIN posts :
               posts[i].user_id # resp'.user
                 => i \in DOMAIN posts' /\ posts'[i] = posts[i]
          /\ (resp'.op = "read_tweets" /\ resp'.status = 200)
               => \A k \in DOMAIN resp'.body :
                    tweets[resp'.body[k].id].user_id = resp'.user
          /\ (resp'.op = "get_scheduled_posts" /\ resp'.status = 200)
               => \A k \in DOMAIN resp'.body :
                    posts[resp'.body[k].id].user_id = resp'.user]_vars

\* a user has asked to publish the other user's pending post and got 404
C25_Witness ==
  /\ resp.op = "post_now"
  /\ resp.status = 404
  /\ resp.id \in DOMAIN posts
  /\ posts[resp.id].user_id # resp.user
  /\ posts[resp.id].status = PENDING
  /\ \E i \in DOMAIN tweets : tweets[i].user_id # resp.user


\* C26: a scheduled post is published to the platform at most once: over
\* any set of post_now requests on the same post, including requests of the
\* same user whose handler steps interleave (both read the post as PENDING
\* before either commits), at most one external create-tweet call succeeds
\* for the post, and the stored tweet_id is the id of that one tweet.
C26_PublishedAtMostOnce ==
  \A i \in PostIds :
    LET created == {tweet \in published : tweet.post_id = i} IN
    /\ Cardinality(created) <= 1
    /\ (i \in DOMAIN posts /\ posts[i].tweet_id # NULL)
         => created = {[post_id |-> i, id |-> posts[i].tweet_id]}


\* C27: post_now publishes only with the requesting user's own stored
\* credentials: for a user whose twitter_access_token or
\* twitter_refresh_token is unset (never connected, or disconnected),
\* post_now never results in a successful publish, so the post's status
\* never becomes POSTED.
C27_Unconnected(user) ==
  \/ users[user].twitter_access_token = NoTwitterToken
  \/ users[user].twitter_refresh_token = NoTwitterToken

C27_OwnCredentialsOnly ==
  [][(resp' # resp /\ resp'.op = "post_now" /\ resp'.user # 0
        /\ C27_Unconnected(resp'.user))
       => /\ resp'.status # 200
          /\ \A i \in DOMAIN posts' :
               posts'[i].status = POSTED => (i \in DOMAIN posts /\ posts[i].status = POSTED)]_vars

\* the same where the application has no credentials of its own
C27_NoPublishWithoutAnyCredentials ==
  [][(resp' # resp /\ resp'.op = "post_now" /\ resp'.user # 0
        /\ C27_Unconnected(resp'.user) /\ settings.TWITTER_API_KEY = "")
       => /\ resp'.status # 200
          /\ \A i \in DOMAIN posts' :
               posts'[i].status = POSTED => (i \in DOMAIN posts /\ posts[i].status = POSTED)]_vars


\* C28: in every state reachable by create_tweet and update_tweet each
\* tweet's scheduling fields agree: is_scheduled is true if and only if
\* scheduled_at is set, and status is 'scheduled' if and only if
\* is_scheduled is true (otherwise 'draft'); in particular after an
\* update_tweet that explicitly sets scheduled_at to null on a scheduled
\* tweet.
C28_SchedulingFieldsAgree ==
  \A i \in DOMAIN tweets :
    /\ tweets[i].is_scheduled <=> tweets[i].scheduled_at # NoTime
    /\ tweets[i].status = (IF tweets[i].is_scheduled THEN "scheduled" ELSE "draft")

\* the same for the two fields the handlers always set together
C28_StatusFollowsFlag ==
  \A i \in DOMAIN tweets :
    /\ tweets[i].status = (IF tweets[i].is_scheduled THEN "scheduled" ELSE "draft")
    /\ tweets[i].scheduled_at # NoTime => tweets[i].is_scheduled


\* the twitter account `tid`, or its handle, is stored with a user other than u
C29_Taken(u, tid) ==
  \E other \in 1..Len(users) :
    /\ other # u
    /\ \/ users[other].twitter_user_id = tid
       \/ users[other].twitter_username = PlatformUsername(tid)

\* the step leaves the twitter id and handle of user u as they were
C29_Kept(u) ==
  /\ users'[u].twitter_user_id = users[u].twitter_user_id
  /\ users'[u].twitter_username = users[u].twitter_username

C29_Failed(token, u) ==
  /\ resp'.status = 400
  /\ users' = users

C29_Connected(token, u, tid) ==
  /\ resp'.status = 200
  /\ users'[u].twitter_access_token = [kind |-> "oauth1-token", tid |-> tid]
  /\ users'[u].twitter_refresh_token = [kind |-> "oauth1-secret", tid |-> tid]
  /\ \A other \in 1..Len(users) : other # u => users'[other] = users[other]
  /\ Len(users') = Len(users)

C29_StatusReportsToken ==
  \A token \in UserTokens :
    get_twitter_status(token) /\ get_current_user(token) # 0 =>
      /\ resp'.status = 200
      /\ resp'.detail.connected =
           (users[get_current_user(token)].twitter_access_token # NoTwitterToken)

\* C29: in twitter_callback a failed access-token exchange returns HTTP 400
\* and leaves the user's four twitter fields unchanged; a successful exchange
\* persists the access token and secret, so that get_twitter_status reports
\* connected = true, even when the profile lookup fails or raises, in which
\* case twitter_user_id and twitter_username are left as they were.
C29_ExchangeDecides ==
  [][/\ \A token \in UserTokens, tid \in TwitterIds \cup {NULL}, info \in InfoOutcomes :
          twitter_callback(token, tid, info) /\ get_current_user(token) # 0 =>
            IF tid = NULL
              THEN C29_Failed(token, get_current_user(token))
              ELSE /\ C29_Connected(token, get_current_user(token), tid)
                   /\ info # "profile" => C29_Kept(get_current_user(token))
     /\ C29_StatusReportsToken]_vars

\* C29 as the code has it: the same, except that a successful exchange whose
\* profile lookup names an account or handle already stored with another
\* user fails at the commit with HTTP 500 and stores nothing
C29_ExchangeDecidesUnlessTaken ==
  [][/\ \A token \in UserTokens, tid \in TwitterIds \cup {NULL}, info \in InfoOutcomes :
          twitter_callback(token, tid, info) /\ get_current_user(token) # 0 =>
            IF tid = NULL
              THEN C29_Failed(token, get_current_user(token))
              ELSE IF info = "profile" /\ C29_Taken(get_current_user(token), tid)
                THEN /\ resp'.status = 500
                     /\ users' = users
                ELSE /\ C29_Connected(token, get_current_user(token), tid)
                     /\ info # "profile" => C29_Kept(get_current_user(token))
     /\ C29_StatusReportsToken]_vars

\* a user whose exchange succeeded and whose profile lookup failed is told
\* that the account is connected, with no twitter id stored
C29_Witness ==
  /\ resp.op = "get_twitter_status"
  /\ resp.status = 200
  /\ resp.detail.connected
  /\ resp.detail.twitter_user_id = NULL
  /\ \E other \in 1..Len(users) :
       other # resp.user /\ users[other].twitter_user_id # NULL


\* the last call asked for a page of a user's history and was answered
C30_Paged ==
  /\ resp.op = "ContentOrchestrationService.get_user_content_history"
  /\ resp.result.kind = "returns"

\* the rows the last call's query selects
C30_Matching == HistoryRows(content_logs, resp.user, resp.request.mode_filter)

\* the page holds at most `limit` of the user's own entries, those that come
\* after the first `offset` when the newest comes first
C30_Page ==
  LET history == resp.result.value.history
      limit == resp.request.limit
      offset == resp.request.offset
      left == IF Cardinality(C30_Matching) > offset
                THEN Cardinality(C30_Matching) - offset ELSE 0
  IN
  /\ Len(history) <= limit
  /\ Len(history) = (IF left < limit THEN left ELSE limit)
  /\ \A k \in DOMAIN history :
       /\ history[k].id \in C30_Matching
       /\ content_logs[history[k].id].user_id = resp.user
       /\ history[k].created_at = content_logs[history[k].id].created_at
       /\ Cardinality({i \in C30_Matching :
                         content_logs[i].created_at > history[k].created_at})
            <= offset + k - 1
       /\ Cardinality({i \in C30_Matching :
                         content_logs[i].created_at >= history[k].created_at})
            >= offset + k
  /\ \A k, l \in DOMAIN history :
       /\ k # l => history[k].id # history[l].id
       /\ k < l => history[k].created_at >= history[l].created_at

\* C30: get_user_content_history returns at most `limit` of the user's own
\* log entries starting at `offset`, newest first, and pagination.has_more is
\* true if and only if the user has further entries beyond offset + limit; it
\* is false when the number of matching entries is exactly offset + limit.
C30_HistoryPage ==
  C30_Paged =>
    /\ C30_Page
    /\ resp.result.value.pagination.has_more
         <=> Cardinality(C30_Matching) > resp.request.offset + resp.request.limit

\* what holds of the page and of the flag the code computes: the flag says
\* that the page is full
C30_PageAndFullFlag ==
  C30_Paged =>
    /\ C30_Page
    /\ resp.result.value.pagination.has_more
         <=> Len(resp.result.value.history) = resp.request.limit
    /\ resp.request.limit > 0 =>
         (resp.result.value.pagination.has_more
            <=> Cardinality(C30_Matching) >= resp.request.offset + resp.request.limit)
    /\ resp.result.value.statistics.total_generated
         = Cardinality(HistoryRows(content_logs, resp.user, NULL))

\* a last page that is full: no entry is left, and the flag is set
C30_FullLastPage ==
  /\ C30_Paged
  /\ resp.request.limit = 1
  /\ resp.request.offset = 1
  /\ Cardinality(C30_Matching) = 2
  /\ resp.result.value.pagination.has_more
  /\ resp.result.value.history[1].prompt_preview = Repeat("p", 100) \o "..."

====
